---- MODULE Spec2Model ----
(***************************************************************************)
(* Model of the skyport agent's tunnel session layer:                      *)
(*   internal/tunnel/manager.go   (TunnelManager: registry, connect,       *)
(*                                 retry, supervisor, disconnect, reader,  *)
(*                                 heartbeat)                              *)
(*   internal/tunnel/protocol.go  (AgentTunnelProtocol: frame dispatch,    *)
(*                                 HTTP forwarding, WebSocket bridging)    *)
(* Every goroutine is a process with a program counter; a step that runs   *)
(* under tm.mutex is one atomic action.                                    *)
(***************************************************************************)
EXTENDS Integers, Sequences, FiniteSets, TLC

\* ---- bounds of the model ------------------------------------------------
MaxConns == 3          \* transports the edge accepts in one run
MaxCalls == 2          \* calls of ConnectTunnelWithRetry in one run
MaxDialFails == 1      \* failed dials in one run
MaxReqs == 2           \* request frames (ids) the edge sends in one run
MaxUpgrades == 1       \* of them, websocket_upgrade frames
MaxWsMsgs == 2         \* messages per direction on one bridged WebSocket
MaxRetryFails == 11    \* failed dials in one run of the retry loops alone
MaxDisconnects == 2    \* calls of DisconnectTunnel for one tunnel
MaxStringLen == 2      \* characters of the url of a message
MaxBodyLen == 3        \* bytes of the body of a message
MaxPasses == 1         \* maintenance passes of the background loop
MaxTime == 120         \* seconds on the clock of the timed session
MaxOtherDials == 1     \* connects of other tunnels during the timed session
MaxTicks == 6          \* checks of the network monitor
MaxStarts == 2         \* calls of NetworkMonitor.Start that find it not monitoring
MaxRounds == 1         \* rounds of a loop that runs under a lock
MaxFrames == 2         \* frames written to one edge connection
MaxQueued == 6         \* the largest retry count of a reconnect queue entry

\* ---- program constants --------------------------------------------------
readTimeout == 60      \* SetReadDeadline(time.Now().Add(60 * time.Second))
pingPeriod == 15       \* time.NewTicker(15 * time.Second)
dialTimeout == 30      \* net.DialTimeout(network, addr, 30*time.Second)
TimeStep == 5          \* the clock advances in steps of 5 s: every duration of
                       \* the code is a multiple of it
changeChanCap == 10    \* make(chan NetworkChange, 10)
maxRetries == 5
maxReconnectAttempts == 10
hmMaxRetries == 5
baseDelay == 2
maxDelay == 60
NoConn == 0
StatusBadGateway == 502
StatusSwitchingProtocols == 101
TextMessage == 1
BinaryMessage == 2

Tunnels == {"t1", "t2"}
ConnIds == 1..MaxConns
Calls == 1..MaxCalls
DialOutcomes == {"ok", "unreachable", "rejected"}
ReqIds == 1..MaxReqs
OriginOutcomes == {"ok", "build_fail", "connect_fail", "read_fail"}
OriginStatuses == {200, 500}

VARIABLES
    activeTunnels,  \* tm.activeTunnels: tunnel id -> connection (NoConn: no entry)
    conns,          \* every TunnelConnection ever created
    numConns,       \* how many were created
    handler,        \* position of handleTunnelConnection per connection
    hb,             \* position of sendHeartbeat per connection
    call,           \* the calls of ConnectTunnelWithRetry
    mon,            \* the monitorAndReconnect goroutine a call started
    fails,          \* failed dials so far
    life,           \* per tunnel: what was last asked of its registered session
                    \* (history: connect mode, disconnect, terminate)
    tasks,          \* per request id: the goroutine handling that frame
    numReqs,        \* request ids the edge has used
    sweep,          \* the goroutine that disconnects every active tunnel
                    \* (OnUserLogout, handleIPChange)
    reconnectQueue, \* hm.reconnectQueue: tunnel id -> retry count (0: no entry)
    lastProbe,      \* per tunnel: how its last health check ended (history)
    hmq,            \* the goroutine that works through the reconnect queue
    disc,           \* per tunnel: the calls of DisconnectTunnel made for it and
                    \* what the last one returned
    codec,          \* one TunnelMessage on its way through json.Marshal and
                    \* json.Unmarshal
    wr,             \* the writers of one edge connection, its locks and what
                    \* has been written to it
    nm,             \* the NetworkMonitor and its change channel
    timed,          \* one session with its clock: read deadline and ping ticker
    am,             \* the service Manager: config file, credentials, background
                    \* goroutine
    lk              \* am.mutex, hm.mu and tm.mutex and the operations that take them

vars == <<activeTunnels, conns, numConns, handler, hb, call, mon, fails, life,
          tasks, numReqs, sweep, reconnectQueue, lastProbe, hmq, disc, codec, wr,
          nm, timed, am, lk>>

\* the tunnel manager and the protocol of its sessions
tunnelVars == <<activeTunnels, conns, numConns, handler, hb, call, mon, fails, life,
                tasks, numReqs>>

protoVars == <<tasks, numReqs>>

hmVars == <<reconnectQueue, lastProbe, hmq>>

\* what the steps of the tunnels, the sweeps and the health monitor leave alone
extVars == <<disc, codec, wr, nm, timed, am, lk>>

svcVars == <<sweep, reconnectQueue, lastProbe, hmq, extVars>>

\* ---- pure helpers -------------------------------------------------------
RECURSIVE Pow2(_)
Pow2(n) == IF n <= 0 THEN 1 ELSE 2 * Pow2(n - 1)

\* delay := baseDelay * (1 << (attempt-1)), capped at maxDelay (seconds)
BackoffDelay(attempt) ==
    LET d == baseDelay * Pow2(attempt - 1)
    IN  IF d > maxDelay THEN maxDelay ELSE d

IsConnected(t) == activeTunnels[t] # NoConn

GetActiveTunnels == {t \in Tunnels : activeTunnels[t] # NoConn}

\* a write on (or a read from) the edge connection succeeds
Writable(c) == conns[c].sock = "open"

FreshConn == [tunnel |-> "", sock |-> "closed", cancelled |-> FALSE, status |-> "none",
              closeSent |-> FALSE]

NewTunnelConnection(t) ==
    [tunnel |-> t, sock |-> "open", cancelled |-> FALSE, status |-> "connected",
     closeSent |-> FALSE]

NoMonitor == [pc |-> "none", tunnel |-> "", attempt |-> 0, delay |-> 0]

MonitorRunning(k) == mon[k].pc \in {"wait", "dial", "sleep"}

\* ---- frames (TunnelMessage) ---------------------------------------------
\* mt is headers["message_type"] of a websocket_data frame ("": no such header)
Frame(type, id, status, error, mt, body) ==
    [type |-> type, id |-> id, status |-> status, error |-> error, mt |-> mt,
     body |-> body]

NoFrame == Frame("none", 0, 0, "", "", 0)

\* wrote: the frames this goroutine has written to the edge, in order;
\* arrived: websocket_data frames read for this id (the i-th has body i);
\* pending: how many of them wait for their goroutine; written: the bodies
\* sent to the local WebSocket, in order
\* origin: how the call to the local service ended
NoTask == [type |-> "none", conn |-> NoConn, pc |-> "none", origin |-> "none",
           resp |-> NoFrame, wrote |-> <<>>, local |-> "none", arrived |-> 0,
           pending |-> 0, written |-> <<>>]

IdleCall == [pc |-> "idle", tunnel |-> "", auto |-> FALSE, attempt |-> 0,
             delay |-> 0, err |-> ""]

\* kind: what runs the sweep; snap: the tunnels it found active; todo: those
\* its current loop still has to visit; call: the connect it is waiting in
NoSweep == [pc |-> "idle", kind |-> "none", snap |-> {}, todo |-> {},
            call |-> IdleCall]

\* todo: the queue entries the loop still has to visit; call: the connect it
\* is waiting in
NoQueueRun == [pc |-> "idle", todo |-> {}, call |-> IdleCall]

\* the goroutines that write to the edge connection of one session: through
\* sendMessage (WriteMessage) or with WriteControl
MessageWriters == {"response", "forwarder", "pong"}
ControlWriters == {"heartbeat", "disconnect", "terminate"}
Writers == MessageWriters \cup ControlWriters

\* pc: where each writer is; writeMutex: who holds atp.writeMutex; mu: who holds
\* the write lock of the connection; writeBuf: whose message is in the write
\* buffer of the connection; wire: what was written, in order
NoWrites == [pc |-> [w \in Writers |-> "idle"], writeMutex |-> "", mu |-> "",
             writeBuf |-> "", wire |-> <<>>]

\* the primary (IPv4 address, interface name) pairs getCurrentNetworkState can
\* return: both empty when no interface is up
NoNetwork == [ip |-> "", iface |-> ""]
NetStates == {NoNetwork, [ip |-> "10.0.0.1", iface |-> "eth0"],
              [ip |-> "10.0.0.2", iface |-> "eth0"],
              [ip |-> "10.0.0.2", iface |-> "wlan0"]}

\* what the last checkNetworkChanges did: the pair it remembered, the pair it
\* found, the events it made and those of them it dropped
NoTick == [ran |-> FALSE, old |-> NoNetwork, cur |-> NoNetwork, events |-> <<>>,
           dropped |-> <<>>]

\* NewNetworkMonitor(); stopped: Stop() has cancelled the context and closed
\* the channel; ticks: the checks made so far; starts: the monitorLoop
\* goroutines started so far; late: a monitorLoop had taken a tick from its
\* ticker and was waiting for nm.mu when Stop() cancelled the context; panic:
\* the run-time panic that ended the process, "" while there was none
NewNetworkMonitor == [lastIP |-> "", lastInterface |-> "", monitoring |-> FALSE,
                      stopped |-> FALSE, changeChan |-> <<>>, ticks |-> 0,
                      tick |-> NoTick, starts |-> 0, late |-> FALSE, panic |-> ""]

\* a session at the moment handleTunnelConnection has set the first read
\* deadline and started the heartbeat. now: the clock, in seconds; last: the
\* time of the last successful read or pong; peer: "live" while the edge sends
\* frames and answers pings; pong: an answer to a ping is on its way;
\* lockedUntil: the time up to which the ConnectTunnel of another tunnel holds
\* tm.mutex in its dial (0: not held); tornAt: when the cleanup had finished
NoTimed == [now |-> 0, reader |-> "read", hb |-> "run", cancelled |-> FALSE,
            deadline |-> readTimeout, nextPing |-> pingPeriod, last |-> 0,
            peer |-> "live", pong |-> FALSE, registered |-> TRUE, sock |-> "open",
            lockedUntil |-> 0, dials |-> 0, tornAt |-> 0]

\* one maintenance pass. due: the auto-start tunnels healthCheckAndReconnect
\* found not connected; dialed: those of them it has called ConnectTunnel for
NoPass == [pc |-> "idle", due |-> {}, dialed |-> {}, passes |-> 0]

\* the three locks and the operations that take them
Locks == {"am.mutex", "hm.mu", "tm.mutex"}

LockProcs == {"StartSilently", "StopSilently", "runBackgroundTasks",
              "performHealthCheck", "processReconnectQueue", "ConnectTunnel",
              "DisconnectTunnel", "handleTunnelConnection"}

\* no operation is under way and no lock is held. owner: who holds the lock
\* for writing; readers: who holds it for reading; pc: the place of an
\* operation in its sequence of lock operations, 0 when it is not running;
\* n: the rounds of its loop in this run; done: the operations that have
\* returned (each is called once in a run)
NoLocks == [owner |-> [l \in Locks |-> "none"],
            readers |-> [l \in Locks |-> {}],
            pc |-> [p \in LockProcs |-> 0],
            n |-> [p \in LockProcs |-> 0],
            done |-> {}]

\* the goroutine of runBackgroundTasks. pc: "none" before StartSilently, "auth"
\* at the start of autoConnectTunnels, "next" between two tunnels of its loop,
\* "wait" inside ConnectTunnelWithRetry, "loop" in the select of the main loop,
\* "exit" when it has returned; todo: the auto-start tunnels still to visit;
\* k: the call it waits for; tunnel: the tunnel of that call
NoBackground == [pc |-> "none", todo |-> {}, k |-> 0, tunnel |-> ""]

\* the stored credentials: the token in the keyring and the user data file
NoCredentials == [token |-> "", userData |-> FALSE]

\* NewManager(cfg) on a machine whose config file lists the tunnels, neither
\* active nor auto-start, and where no one is logged in. reachable: the
\* server answers; mgr: the calls of ConnectTunnelWithRetry a
\* Manager.ConnectTunnel is waiting for; cancelled: am.cancel() was called;
\* stopping: the tunnels disconnectAllTunnels has still to disconnect
NewManager ==
    [config |-> [t \in Tunnels |-> [IsActive |-> FALSE, AutoStart |-> FALSE]],
     creds |-> NoCredentials,
     reachable |-> TRUE,
     pass |-> NoPass,
     mgr |-> {},
     isRunning |-> FALSE,
     cancelled |-> FALSE,
     stopping |-> {},
     bg |-> NoBackground]

Init ==
    /\ am = NewManager
    /\ lk = NoLocks
    /\ wr = NoWrites
    /\ nm = NewNetworkMonitor
    /\ timed = NoTimed
    /\ codec = [pc |-> "idle"]
    /\ disc = [t \in Tunnels |-> [calls |-> 0, err |-> ""]]
    /\ sweep = NoSweep
    /\ hmq = NoQueueRun
    /\ reconnectQueue = [t \in Tunnels |-> 0]
    /\ lastProbe = [t \in Tunnels |-> "none"]
    /\ activeTunnels = [t \in Tunnels |-> NoConn]
    /\ conns = [c \in ConnIds |-> FreshConn]
    /\ numConns = 0
    /\ handler = [c \in ConnIds |-> "none"]
    /\ hb = [c \in ConnIds |-> "none"]
    /\ call = [k \in Calls |-> IdleCall]
    /\ mon = [k \in Calls |-> NoMonitor]
    /\ fails = 0
    /\ life = [t \in Tunnels |-> "none"]
    /\ tasks = [x \in ReqIds |-> NoTask]
    /\ numReqs = 0

\* ---- TunnelManager.ConnectTunnel (runs under tm.mutex, dial included) ----
\* what the call returns when the dial would end as `dial`
ConnectResultUnchecked(t, dial) == dial

ConnectResult(t, dial) == IF IsConnected(t) THEN "already" ELSE dial

\* budget: how many failed dials the run may still hold (a bound of the model)
ConnectTunnelWithin(t, res, budget) ==
    IF res = "ok" THEN
        /\ numConns < MaxConns
        /\ numConns' = numConns + 1
        /\ conns' = [conns EXCEPT ![numConns + 1] = NewTunnelConnection(t)]
        /\ activeTunnels' = [activeTunnels EXCEPT ![t] = numConns + 1]
        /\ handler' = [handler EXCEPT ![numConns + 1] = "start"]
        /\ UNCHANGED fails
    ELSE IF res = "already" THEN
        UNCHANGED <<numConns, conns, activeTunnels, handler, fails>>
    ELSE
        /\ fails < budget
        /\ fails' = fails + 1
        /\ UNCHANGED <<numConns, conns, activeTunnels, handler>>

ConnectTunnel(t, res) == ConnectTunnelWithin(t, res, MaxDialFails)

\* ---- TunnelManager.ConnectTunnelWithRetry --------------------------------
CallStart(k, t, auto) ==
    /\ call[k].pc = "idle"
    /\ \A j \in Calls : j < k => call[j].pc # "idle"
    /\ call' = [call EXCEPT ![k] = [IdleCall EXCEPT !.pc = "dial", !.tunnel = t,
                                                    !.auto = auto]]
    /\ UNCHANGED <<activeTunnels, conns, numConns, handler, hb, mon, fails, life>>
    /\ UNCHANGED protoVars
    /\ UNCHANGED svcVars

AfterConnectOneMore(c, res) ==
    IF res = "ok" THEN [c EXCEPT !.pc = "ret_ok", !.attempt = 0]
    ELSE IF res = "already" THEN [c EXCEPT !.pc = "ret_err", !.err = "already"]
    ELSE IF c.attempt + 1 > maxRetries /\ ~c.auto
         THEN [c EXCEPT !.pc = "ret_err", !.err = res, !.attempt = c.attempt + 1]
         ELSE [c EXCEPT !.pc = "sleep", !.attempt = c.attempt + 1, !.err = res,
                        !.delay = BackoffDelay(c.attempt + 1)]

\* the caller's state after ConnectTunnel returned res
AfterConnect(c, res) ==
    IF res = "ok" THEN [c EXCEPT !.pc = "ret_ok", !.attempt = 0]
    ELSE IF res = "already" THEN [c EXCEPT !.pc = "ret_err", !.err = "already"]
    ELSE IF c.attempt + 1 >= maxRetries /\ ~c.auto
         THEN [c EXCEPT !.pc = "ret_err", !.err = res, !.attempt = c.attempt + 1]
         ELSE [c EXCEPT !.pc = "sleep", !.attempt = c.attempt + 1, !.err = res,
                        !.delay = BackoffDelay(c.attempt + 1)]

\* `go tm.monitorAndReconnect(tunnel, token)` after a successful connect
SpawnsMonitor(c, res) == res = "ok" /\ c.auto

CallDialWithin(k, budget) ==
    /\ call[k].pc = "dial"
    /\ \E dial \in DialOutcomes :
         LET t == call[k].tunnel
             res == ConnectResult(t, dial)
         IN  /\ ConnectTunnelWithin(t, res, budget)
             /\ call' = [call EXCEPT ![k] = AfterConnect(call[k], res)]
             /\ mon' = IF SpawnsMonitor(call[k], res)
                       THEN [mon EXCEPT ![k] = [NoMonitor EXCEPT !.pc = "wait",
                                                                 !.tunnel = t]]
                       ELSE mon
             /\ life' = IF res = "ok"
                        THEN [life EXCEPT ![t] = IF call[k].auto THEN "persistent"
                                                                 ELSE "ephemeral"]
                        ELSE life
    /\ UNCHANGED hb
    /\ UNCHANGED protoVars
    /\ UNCHANGED svcVars

CallDial(k) == CallDialWithin(k, MaxDialFails)

CallWake(k) ==
    /\ call[k].pc = "sleep"
    /\ call' = [call EXCEPT ![k] =
                 [@ EXCEPT !.pc = "dial", !.delay = 0, !.err = "",
                           !.attempt = IF @ >= maxRetries /\ call[k].auto
                                       THEN maxRetries - 1 ELSE @]]
    /\ UNCHANGED <<activeTunnels, conns, numConns, handler, hb, mon, fails, life>>
    /\ UNCHANGED protoVars
    /\ UNCHANGED svcVars

\* ---- TunnelManager.monitorAndReconnect ------------------------------------
MonitorTick(k) ==
    /\ mon[k].pc = "wait"
    /\ ~IsConnected(mon[k].tunnel)
    /\ mon' = [mon EXCEPT ![k] = [@ EXCEPT !.pc = "dial", !.attempt = 0]]
    /\ UNCHANGED <<activeTunnels, conns, numConns, handler, hb, call, fails, life>>
    /\ UNCHANGED protoVars
    /\ UNCHANGED svcVars

AfterReconnectUncounted(m, res) ==
    IF res = "ok" THEN [m EXCEPT !.pc = "reconnected", !.attempt = 0]
    ELSE IF res = "already" THEN [m EXCEPT !.pc = "already", !.attempt = 0]
    ELSE [m EXCEPT !.pc = "sleep", !.delay = BackoffDelay(m.attempt + 1)]

\* the supervisor's state after ConnectTunnel returned res on attempt m.attempt+1
AfterReconnect(m, res) ==
    IF res = "ok" THEN [m EXCEPT !.pc = "reconnected", !.attempt = 0]
    ELSE IF res = "already" THEN [m EXCEPT !.pc = "already", !.attempt = 0]
    ELSE [m EXCEPT !.pc = "sleep", !.attempt = m.attempt + 1,
                   !.delay = BackoffDelay(m.attempt + 1)]

MonitorDialWithin(k, budget) ==
    /\ mon[k].pc = "dial"
    /\ IF mon[k].attempt >= maxReconnectAttempts
       THEN /\ mon' = [mon EXCEPT ![k] = [@ EXCEPT !.pc = "gaveup"]]
            /\ UNCHANGED <<activeTunnels, conns, numConns, handler, fails>>
       ELSE \E dial \in DialOutcomes :
              LET t == mon[k].tunnel
                  res == ConnectResult(t, dial)
              IN  /\ ConnectTunnelWithin(t, res, budget)
                  /\ mon' = [mon EXCEPT ![k] = AfterReconnect(mon[k], res)]
    /\ UNCHANGED <<hb, call, life>>
    /\ UNCHANGED protoVars
    /\ UNCHANGED svcVars

MonitorDial(k) == MonitorDialWithin(k, MaxDialFails)

MonitorWake(k) ==
    /\ mon[k].pc = "sleep"
    /\ mon' = [mon EXCEPT ![k] = [@ EXCEPT !.pc = "dial", !.delay = 0]]
    /\ UNCHANGED <<activeTunnels, conns, numConns, handler, hb, call, fails, life>>
    /\ UNCHANGED protoVars
    /\ UNCHANGED svcVars

\* ---- writes on the edge connection ----------------------------------------
\* the close frame alone
CloseGracefullyLeftOpen(conn) ==
    [conn EXCEPT !.closeSent = (@ \/ conn.sock = "open")]

\* WriteControl(CloseMessage, CloseNormalClosure, ...) on c, then c.Close()
CloseGracefully(conn) ==
    [conn EXCEPT !.closeSent = (@ \/ conn.sock = "open"), !.sock = "closed"]

\* ---- TunnelManager.DisconnectTunnel (runs under tm.mutex) ----------------
DisconnectTunnel(t) ==
    /\ IsConnected(t)
    /\ LET c == activeTunnels[t]
       IN  conns' = [conns EXCEPT ![c] = [CloseGracefully(@) EXCEPT !.cancelled = TRUE]]
    /\ activeTunnels' = [activeTunnels EXCEPT ![t] = NoConn]
    /\ life' = [life EXCEPT ![t] = "disconnected"]
    /\ UNCHANGED <<numConns, handler, hb, call, mon, fails, tasks, numReqs>>

\* Manager.DisconnectTunnel, called by the user
ManagerDisconnect(t) == DisconnectTunnel(t) /\ UNCHANGED svcVars

\* the same call, whatever the registry holds: without an entry it returns
\* "tunnel not connected" before it does anything
DisconnectCall(t) ==
    /\ disc[t].calls < MaxDisconnects
    /\ IF IsConnected(t)
       THEN /\ DisconnectTunnel(t)
            /\ disc' = [disc EXCEPT ![t] = [calls |-> @.calls + 1, err |-> ""]]
       ELSE /\ UNCHANGED <<activeTunnels, conns, numConns, handler, hb, call, mon, fails,
                           life, tasks, numReqs>>
            /\ disc' = [disc EXCEPT ![t] = [calls |-> @.calls + 1,
                                            err |-> "tunnel not connected"]]
    /\ UNCHANGED <<sweep, reconnectQueue, lastProbe, hmq>>
    /\ UNCHANGED <<codec, wr, nm, timed, am, lk>>

\* ---- the service layer: sweeps over the active tunnels --------------------
SweepKinds == {"netchange", "logout"}

\* handleIPChange / disconnectAllTunnels take the list of active tunnels
SweepStart(kind) ==
    /\ sweep.pc = "idle"
    /\ sweep' = [NoSweep EXCEPT !.pc = "disconnect", !.kind = kind,
                                !.snap = GetActiveTunnels, !.todo = GetActiveTunnels]
    /\ UNCHANGED <<activeTunnels, conns, numConns, handler, hb, call, mon, fails, life>>
    /\ UNCHANGED protoVars
    /\ UNCHANGED hmVars
    /\ UNCHANGED extVars

\* where the sweep stands once its disconnect loop has visited `left`
AfterDisconnectLoop(sw, left) ==
    IF left # {} THEN [sw EXCEPT !.todo = left]
    ELSE IF sw.kind = "netchange" THEN [sw EXCEPT !.pc = "settle", !.todo = sw.snap]
    ELSE [sw EXCEPT !.pc = "done", !.todo = {}]

\* one pass of the disconnect loop; a tunnel that is no longer connected makes
\* DisconnectTunnel return an error, which the loop logs
SweepDisconnect(t) ==
    /\ sweep.pc = "disconnect"
    /\ t \in sweep.todo
    /\ IF IsConnected(t)
       THEN DisconnectTunnel(t)
       ELSE UNCHANGED <<activeTunnels, conns, numConns, handler, hb, call, mon, fails,
                        life, tasks, numReqs>>
    /\ sweep' = AfterDisconnectLoop(sweep, sweep.todo \ {t})
    /\ UNCHANGED hmVars
    /\ UNCHANGED extVars

\* time.Sleep(2 * time.Second) is over
SweepSettle ==
    /\ sweep.pc = "settle"
    /\ sweep' = [sweep EXCEPT !.pc = "connect"]
    /\ UNCHANGED <<activeTunnels, conns, numConns, handler, hb, call, mon, fails, life>>
    /\ UNCHANGED protoVars
    /\ UNCHANGED hmVars
    /\ UNCHANGED extVars

\* where the sweep stands once its reconnect loop has visited `left`
AfterConnectLoop(sw, left) ==
    IF left # {} THEN [sw EXCEPT !.pc = "connect", !.todo = left, !.call = IdleCall]
    ELSE [sw EXCEPT !.pc = "done", !.todo = {}, !.call = IdleCall]

\* Manager.ConnectTunnel(t, false): "tunnel is already connected" when t is
\* registered, otherwise ConnectTunnelWithRetry(t, token, false)
SweepConnect(t) ==
    /\ sweep.pc = "connect"
    /\ t \in sweep.todo
    /\ sweep' = IF IsConnected(t)
                THEN AfterConnectLoop(sweep, sweep.todo \ {t})
                ELSE [sweep EXCEPT !.pc = "wait",
                                   !.call = [IdleCall EXCEPT !.pc = "dial", !.tunnel = t]]
    /\ UNCHANGED <<activeTunnels, conns, numConns, handler, hb, call, mon, fails, life>>
    /\ UNCHANGED protoVars
    /\ UNCHANGED hmVars
    /\ UNCHANGED extVars

\* a dial of the connect the sweep waits in
SweepDial ==
    /\ sweep.pc = "wait"
    /\ sweep.call.pc = "dial"
    /\ \E dial \in DialOutcomes :
         LET t == sweep.call.tunnel
             res == ConnectResult(t, dial)
         IN  /\ ConnectTunnel(t, res)
             /\ sweep' = [sweep EXCEPT !.call = AfterConnect(sweep.call, res)]
             /\ life' = IF res = "ok" THEN [life EXCEPT ![t] = "ephemeral"] ELSE life
    /\ UNCHANGED <<hb, call, mon>>
    /\ UNCHANGED protoVars
    /\ UNCHANGED hmVars
    /\ UNCHANGED extVars

\* the backoff sleep of that connect is over
SweepWake ==
    /\ sweep.pc = "wait"
    /\ sweep.call.pc = "sleep"
    /\ sweep' = [sweep EXCEPT !.call = [@ EXCEPT !.pc = "dial", !.delay = 0, !.err = ""]]
    /\ UNCHANGED <<activeTunnels, conns, numConns, handler, hb, call, mon, fails, life>>
    /\ UNCHANGED protoVars
    /\ UNCHANGED hmVars
    /\ UNCHANGED extVars

\* the connect has returned; the loop logs an error and goes on
SweepReturn ==
    /\ sweep.pc = "wait"
    /\ sweep.call.pc \in {"ret_ok", "ret_err"}
    /\ sweep' = AfterConnectLoop(sweep, sweep.todo \ {sweep.call.tunnel})
    /\ UNCHANGED <<activeTunnels, conns, numConns, handler, hb, call, mon, fails, life>>
    /\ UNCHANGED protoVars
    /\ UNCHANGED hmVars
    /\ UNCHANGED extVars

\* ---- HealthMonitor ---------------------------------------------------------
ProbeOutcomes == {"ok", "origin_down", "dns_down"}

scheduleReconnect(q, t) == [q EXCEPT ![t] = @ + 1]

\* the queue after the health check of tunnel t ended as out
AfterProbe(q, t, out) == IF out = "ok" THEN q ELSE scheduleReconnect(q, t)

RECURSIVE AfterProbes(_, _, _)
AfterProbes(q, ts, out) ==
    IF ts = {} THEN q
    ELSE LET t == CHOOSE u \in ts : TRUE
         IN  AfterProbes(AfterProbe(q, t, out[t]), ts \ {t}, out)

TunnelsAfterProbesTornDown(out) ==
    IF \E t \in DOMAIN out : out[t] # "ok"
    THEN DisconnectTunnel(CHOOSE t \in DOMAIN out : out[t] # "ok")
    ELSE UNCHANGED <<activeTunnels, conns, numConns, handler, hb, call, mon, fails, life,
                     tasks, numReqs>>

\* what the health check does to the tunnels: it reads the registry
\* (GetActiveTunnels, IsTunnelConnected) and writes nothing
TunnelsAfterProbes(out) ==
    UNCHANGED <<activeTunnels, conns, numConns, handler, hb, call, mon, fails, life,
                tasks, numReqs>>

\* performHealthCheck: one pass over the active tunnels, under hm.mu
PerformHealthCheck ==
    /\ hmq.pc = "idle"
    /\ GetActiveTunnels # {}
    /\ \E out \in [GetActiveTunnels -> ProbeOutcomes] :
         /\ \A t \in GetActiveTunnels : out[t] # "ok" => reconnectQueue[t] < MaxQueued
         /\ reconnectQueue' = AfterProbes(reconnectQueue, GetActiveTunnels, out)
         /\ lastProbe' = [t \in Tunnels |->
                            IF t \in GetActiveTunnels THEN out[t] ELSE lastProbe[t]]
         /\ TunnelsAfterProbes(out)
    /\ UNCHANGED <<sweep, hmq>>
    /\ UNCHANGED extVars

\* processReconnectQueue takes hm.mu and ranges over the queue
ReconnectTick ==
    /\ hmq.pc = "idle"
    /\ \E t \in Tunnels : reconnectQueue[t] > 0
    /\ hmq' = [NoQueueRun EXCEPT !.pc = "loop",
                                 !.todo = {t \in Tunnels : reconnectQueue[t] > 0}]
    /\ UNCHANGED <<activeTunnels, conns, numConns, handler, hb, call, mon, fails, life>>
    /\ UNCHANGED protoVars
    /\ UNCHANGED <<sweep, reconnectQueue, lastProbe>>
    /\ UNCHANGED extVars

\* where the loop stands once it has visited all but `left`
AfterQueueLoop(left) ==
    IF left # {} THEN [NoQueueRun EXCEPT !.pc = "loop", !.todo = left]
    ELSE NoQueueRun

\* one pass of the loop, up to the call of ConnectTunnelWithRetry:
\* Manager.ConnectTunnel(t, false) fails at once for a connected tunnel
ProcessQueued(t) ==
    /\ hmq.pc = "loop"
    /\ t \in hmq.todo
    /\ IF reconnectQueue[t] > hmMaxRetries
       THEN /\ reconnectQueue' = [reconnectQueue EXCEPT ![t] = 0]
            /\ hmq' = AfterQueueLoop(hmq.todo \ {t})
       ELSE IF IsConnected(t)
       THEN /\ reconnectQueue' = scheduleReconnect(reconnectQueue, t)
            /\ hmq' = AfterQueueLoop(hmq.todo \ {t})
       ELSE /\ hmq' = [hmq EXCEPT !.pc = "wait",
                                  !.call = [IdleCall EXCEPT !.pc = "dial", !.tunnel = t]]
            /\ UNCHANGED reconnectQueue
    /\ UNCHANGED <<activeTunnels, conns, numConns, handler, hb, call, mon, fails, life>>
    /\ UNCHANGED protoVars
    /\ UNCHANGED <<sweep, lastProbe>>
    /\ UNCHANGED extVars

\* a dial of the connect the loop waits in
QueueDial ==
    /\ hmq.pc = "wait"
    /\ hmq.call.pc = "dial"
    /\ \E dial \in DialOutcomes :
         LET t == hmq.call.tunnel
             res == ConnectResult(t, dial)
         IN  /\ ConnectTunnel(t, res)
             /\ hmq' = [hmq EXCEPT !.call = AfterConnect(hmq.call, res)]
             /\ life' = IF res = "ok" THEN [life EXCEPT ![t] = "ephemeral"] ELSE life
    /\ UNCHANGED <<hb, call, mon>>
    /\ UNCHANGED protoVars
    /\ UNCHANGED <<sweep, reconnectQueue, lastProbe>>
    /\ UNCHANGED extVars

\* the backoff sleep of that connect is over
QueueWake ==
    /\ hmq.pc = "wait"
    /\ hmq.call.pc = "sleep"
    /\ hmq' = [hmq EXCEPT !.call = [@ EXCEPT !.pc = "dial", !.delay = 0, !.err = ""]]
    /\ UNCHANGED <<activeTunnels, conns, numConns, handler, hb, call, mon, fails, life>>
    /\ UNCHANGED protoVars
    /\ UNCHANGED <<sweep, reconnectQueue, lastProbe>>
    /\ UNCHANGED extVars

\* the connect has returned: the entry is deleted on success, counted up on error
QueueReturn ==
    /\ hmq.pc = "wait"
    /\ hmq.call.pc \in {"ret_ok", "ret_err"}
    /\ reconnectQueue' = IF hmq.call.pc = "ret_ok"
                         THEN [reconnectQueue EXCEPT ![hmq.call.tunnel] = 0]
                         ELSE scheduleReconnect(reconnectQueue, hmq.call.tunnel)
    /\ hmq' = AfterQueueLoop(hmq.todo \ {hmq.call.tunnel})
    /\ UNCHANGED <<activeTunnels, conns, numConns, handler, hb, call, mon, fails, life>>
    /\ UNCHANGED protoVars
    /\ UNCHANGED <<sweep, lastProbe>>
    /\ UNCHANGED extVars

\* ---- TunnelManager.handleTunnelConnection ---------------------------------
\* SetReadDeadline fails on a closed connection: the handler returns at once.
\* A return runs the deferred Cancel() and then waits for tm.mutex ("delete").
HandlerStart(c) ==
    /\ handler[c] = "start"
    /\ IF conns[c].sock # "closed"
       THEN /\ handler' = [handler EXCEPT ![c] = "read"]
            /\ hb' = [hb EXCEPT ![c] = "run"]
            /\ conns' = conns
       ELSE /\ handler' = [handler EXCEPT ![c] = "delete"]
            /\ hb' = hb
            /\ conns' = [conns EXCEPT ![c] = [@ EXCEPT !.cancelled = TRUE]]
    /\ UNCHANGED <<activeTunnels, numConns, call, mon, fails, life>>
    /\ UNCHANGED protoVars
    /\ UNCHANGED svcVars

ReadError(c) ==
    /\ handler[c] = "read"
    /\ ~Writable(c)
    /\ conns' = [conns EXCEPT ![c] = [@ EXCEPT !.status = "error", !.cancelled = TRUE]]
    /\ handler' = [handler EXCEPT ![c] = "delete"]
    /\ UNCHANGED <<activeTunnels, numConns, hb, call, mon, fails, life>>
    /\ UNCHANGED protoVars
    /\ UNCHANGED svcVars

DeleteOnCleanupSkipped(c) == activeTunnels

\* delete(tm.activeTunnels, tunnelConn.Tunnel.ID): the key, whatever it maps to
DeleteOnCleanup(c) == [activeTunnels EXCEPT ![conns[c].tunnel] = NoConn]

HandlerDelete(c) ==
    /\ handler[c] = "delete"
    /\ activeTunnels' = DeleteOnCleanup(c)
    /\ handler' = [handler EXCEPT ![c] = "close"]
    /\ UNCHANGED <<conns, numConns, hb, call, mon, fails, life>>
    /\ UNCHANGED protoVars
    /\ UNCHANGED svcVars

HandlerClose(c) ==
    /\ handler[c] = "close"
    /\ conns' = [conns EXCEPT ![c] = [@ EXCEPT !.sock = "closed"]]
    /\ handler' = [handler EXCEPT ![c] = "exited"]
    /\ UNCHANGED <<activeTunnels, numConns, hb, call, mon, fails, life>>
    /\ UNCHANGED protoVars
    /\ UNCHANGED svcVars

\* ---- TunnelManager.sendHeartbeat ------------------------------------------
HeartbeatStop(c) ==
    /\ hb[c] = "run"
    /\ conns[c].cancelled
    /\ hb' = [hb EXCEPT ![c] = "none"]
    /\ UNCHANGED <<activeTunnels, conns, numConns, handler, call, mon, fails, life>>
    /\ UNCHANGED protoVars
    /\ UNCHANGED svcVars

HeartbeatFail(c) ==
    /\ hb[c] = "run"
    /\ ~Writable(c)
    /\ conns' = [conns EXCEPT ![c] = [@ EXCEPT !.status = "error", !.cancelled = TRUE]]
    /\ hb' = [hb EXCEPT ![c] = "none"]
    /\ UNCHANGED <<activeTunnels, numConns, handler, call, mon, fails, life>>
    /\ UNCHANGED protoVars
    /\ UNCHANGED svcVars

\* ---- the environment: the edge connection breaks ---------------------------
TransportFail(c) ==
    /\ conns[c].sock = "open"
    /\ conns' = [conns EXCEPT ![c] = [@ EXCEPT !.sock = "broken"]]
    /\ UNCHANGED <<activeTunnels, numConns, handler, hb, call, mon, fails, life>>
    /\ UNCHANGED protoVars
    /\ UNCHANGED svcVars

\* ---- AgentTunnelProtocol.sendMessage ---------------------------------------
\* what goroutine t has written after sendMessage(f): the write fails on a
\* connection that is closed or broken
SendMessage(t, f) == IF Writable(t.conn) THEN Append(t.wrote, f) ELSE t.wrote

\* ---- AgentTunnelProtocol: the frames it builds -----------------------------
ErrorResponseNoId(id, msg) == Frame("http_response", 0, StatusBadGateway, msg, "", 0)

ErrorResponseNoError(id, msg) == Frame("http_response", id, StatusBadGateway, "", "", 0)

\* sendErrorResponse(requestID, errorMsg)
ErrorResponse(id, msg) == Frame("http_response", id, StatusBadGateway, msg, "", 0)

\* the http_response of handleHTTPRequest for an origin call that ended `outcome`
HTTPResponseFor(id, outcome, status) ==
    IF outcome = "build_fail" THEN ErrorResponse(id, "Failed to create request")
    ELSE IF outcome = "connect_fail"
         THEN ErrorResponse(id, "Failed to connect to local service")
    ELSE IF outcome = "read_fail" THEN ErrorResponse(id, "Failed to read response")
    ELSE Frame("http_response", id, status, "", "", 0)

UpgradeResponseAccept(id, dialed) ==
    Frame("websocket_upgrade_response", id, StatusSwitchingProtocols, "", "", 0)

\* the websocket_upgrade_response of handleWebSocketUpgrade
UpgradeResponseFor(id, dialed) ==
    IF dialed
    THEN Frame("websocket_upgrade_response", id, StatusSwitchingProtocols, "", "", 0)
    ELSE Frame("websocket_upgrade_response", id, StatusBadGateway,
               "Failed to connect to local WebSocket", "", 0)

\* strconv.Itoa on a message type (one decimal digit)
Itoa(n) == <<"0", "1", "2", "3", "4", "5", "6", "7", "8", "9">>[n + 1]

DataFrameUntyped(id, mt, body) == Frame("websocket_data", id, 0, "", "", body)

\* the websocket_data frame of handleWebSocketForwarding
DataFrame(id, mt, body) == Frame("websocket_data", id, 0, "", Itoa(mt), body)

AfterHandleCancel(conn, failed) ==
    IF failed THEN [conn EXCEPT !.status = "error", !.cancelled = TRUE] ELSE conn

\* HandleTunnelMessage returned an error: tunnelConn.Status = "error"
AfterHandle(conn, failed) == IF failed THEN [conn EXCEPT !.status = "error"] ELSE conn

\* the reader after a frame: the loop's select sees a cancelled context and returns
AfterReadHandling(c) == IF conns[c].cancelled THEN "delete" ELSE "handling"

\* the reader after `go func() { HandleTunnelMessage(message) }()`: the select
\* at the top of its loop
AfterRead(c) == IF conns[c].cancelled THEN "delete" ELSE "read"

\* ---- handleTunnelConnection: one frame read, one goroutine started ---------
ReadRequest(c, type) ==
    /\ handler[c] = "read"
    /\ Writable(c)
    /\ numReqs < MaxReqs
    /\ type = "websocket_upgrade" => numReqs < MaxUpgrades
    /\ numReqs' = numReqs + 1
    /\ tasks' = [tasks EXCEPT ![numReqs + 1] =
                   [NoTask EXCEPT !.type = type, !.conn = c, !.pc = "new"]]
    /\ handler' = [handler EXCEPT ![c] = AfterRead(c)]
    /\ UNCHANGED <<activeTunnels, conns, numConns, hb, call, mon, fails, life>>
    /\ UNCHANGED svcVars

\* the edge has received the 101 for x
Upgraded(x) ==
    /\ tasks[x].type = "websocket_upgrade"
    /\ tasks[x].resp.status = StatusSwitchingProtocols
    /\ tasks[x].pc \in {"forward", "done"}

ReadWsData(c, x) ==
    /\ handler[c] = "read"
    /\ Writable(c)
    /\ tasks[x].conn = c
    /\ Upgraded(x)
    /\ tasks[x].arrived < MaxWsMsgs
    /\ tasks' = [tasks EXCEPT ![x] = [@ EXCEPT !.arrived = @ + 1, !.pending = @ + 1]]
    /\ handler' = [handler EXCEPT ![c] = AfterRead(c)]
    /\ UNCHANGED <<activeTunnels, conns, numConns, hb, call, mon, fails, life,
                   numReqs>>
    /\ UNCHANGED svcVars

\* ---- AgentTunnelProtocol.handleHTTPRequest ---------------------------------
HTTPForward(x) ==
    /\ tasks[x].type = "http_request"
    /\ tasks[x].pc = "new"
    /\ \E outcome \in OriginOutcomes, status \in OriginStatuses :
         tasks' = [tasks EXCEPT ![x] =
                     [@ EXCEPT !.pc = "send", !.origin = outcome,
                               !.resp = HTTPResponseFor(x, outcome, status)]]
    /\ UNCHANGED <<activeTunnels, conns, numConns, handler, hb, call, mon, fails,
                   life, numReqs>>
    /\ UNCHANGED svcVars

HTTPSend(x) ==
    /\ tasks[x].type = "http_request"
    /\ tasks[x].pc = "send"
    /\ LET c == tasks[x].conn
       IN  conns' = [conns EXCEPT ![c] = AfterHandle(@, ~Writable(c))]
    /\ tasks' = [tasks EXCEPT ![x] = [@ EXCEPT !.pc = "done",
                                               !.wrote = SendMessage(tasks[x], tasks[x].resp)]]
    /\ UNCHANGED <<activeTunnels, numConns, handler, hb, call, mon, fails, life,
                   numReqs>>
    /\ UNCHANGED svcVars

\* ---- AgentTunnelProtocol.handleWebSocketUpgrade ----------------------------
WSDial(x) ==
    /\ tasks[x].type = "websocket_upgrade"
    /\ tasks[x].pc = "new"
    /\ \E dialed \in BOOLEAN :
         tasks' = [tasks EXCEPT ![x] =
                     [@ EXCEPT !.pc = "send",
                               !.origin = IF dialed THEN "ok" ELSE "connect_fail",
                               !.resp = UpgradeResponseFor(x, dialed),
                               !.local = IF dialed THEN "open" ELSE "none"]]
    /\ UNCHANGED <<activeTunnels, conns, numConns, handler, hb, call, mon, fails,
                   life, numReqs>>
    /\ UNCHANGED svcVars

\* the upgrade goroutine after sendMessage(response): forwarding starts only
\* after a 101 was written; a return closes the local socket (defer)
AfterUpgradeSend(t, written) ==
    IF t.local = "open" /\ written
    THEN [t EXCEPT !.pc = "forward"]
    ELSE [t EXCEPT !.pc = "done", !.local = IF t.local = "open" THEN "closed" ELSE @]

WSRespond(x) ==
    /\ tasks[x].type = "websocket_upgrade"
    /\ tasks[x].pc = "send"
    /\ LET c == tasks[x].conn
       IN  /\ conns' = [conns EXCEPT ![c] = AfterHandle(@, ~Writable(c))]
           /\ tasks' = [tasks EXCEPT ![x] =
                          [AfterUpgradeSend(@, Writable(c)) EXCEPT
                              !.wrote = SendMessage(tasks[x], tasks[x].resp)]]
    /\ UNCHANGED <<activeTunnels, numConns, handler, hb, call, mon, fails, life,
                   numReqs>>
    /\ UNCHANGED svcVars

\* ---- AgentTunnelProtocol.handleWebSocketForwarding -------------------------
\* the n-th message read from the local socket has body n
WSForward(x, mt) ==
    /\ tasks[x].pc = "forward"
    /\ Len(tasks[x].wrote) <= MaxWsMsgs
    /\ LET c == tasks[x].conn
       IN  tasks' = [tasks EXCEPT ![x] =
                       IF Writable(c)
                       THEN [@ EXCEPT !.wrote = SendMessage(tasks[x],
                                                  DataFrame(x, mt, Len(tasks[x].wrote)))]
                       ELSE [@ EXCEPT !.pc = "done", !.local = "closed"]]
    /\ UNCHANGED <<activeTunnels, conns, numConns, handler, hb, call, mon, fails,
                   life, numReqs>>
    /\ UNCHANGED svcVars

\* the origin closes the local WebSocket: localConn.ReadMessage fails
WSLocalClose(x) ==
    /\ tasks[x].pc = "forward"
    /\ tasks' = [tasks EXCEPT ![x] = [@ EXCEPT !.pc = "done", !.local = "closed"]]
    /\ UNCHANGED <<activeTunnels, conns, numConns, handler, hb, call, mon, fails,
                   life, numReqs>>
    /\ UNCHANGED svcVars

\* ---- AgentTunnelProtocol.handleWebSocketData -------------------------------
\* what the local WebSocket of x has been sent after the handling of one more
\* websocket_data frame: the handler only logs the frame
LocalWrites(t) == t.written

HandleWebSocketData(x) ==
    /\ tasks[x].pending > 0
    /\ tasks' = [tasks EXCEPT ![x] = [@ EXCEPT !.pending = @ - 1,
                                               !.written = LocalWrites(tasks[x])]]
    /\ UNCHANGED <<activeTunnels, conns, numConns, handler, hb, call, mon, fails,
                   life, numReqs>>
    /\ UNCHANGED svcVars

\* ---- HandleTunnelMessage, case "terminate" ---------------------------------
Terminate(x) ==
    /\ tasks[x].type = "terminate"
    /\ tasks[x].pc = "new"
    /\ LET c == tasks[x].conn
       IN  /\ conns' = [conns EXCEPT ![c] = CloseGracefully(@)]
           /\ life' = IF activeTunnels[conns[c].tunnel] = c
                      THEN [life EXCEPT ![conns[c].tunnel] = "terminated"]
                      ELSE life
    /\ tasks' = [tasks EXCEPT ![x] = [@ EXCEPT !.pc = "done"]]
    /\ UNCHANGED <<activeTunnels, numConns, handler, hb, call, mon, fails, numReqs>>
    /\ UNCHANGED svcVars

MessageTypes == {TextMessage, BinaryMessage}

\* ---- one session: the connect call of one caller and what ends its transport
SessionNext(modes) ==
    \/ \E auto \in modes : CallStart(1, "t1", auto)
    \/ CallDial(1)
    \/ CallWake(1)
    \/ \E t \in Tunnels : ManagerDisconnect(t)
    \/ \E c \in ConnIds : HandlerStart(c)
    \/ \E c \in ConnIds : ReadError(c)
    \/ \E c \in ConnIds : HandlerDelete(c)
    \/ \E c \in ConnIds : HandlerClose(c)
    \/ \E c \in ConnIds : HeartbeatStop(c)
    \/ \E c \in ConnIds : HeartbeatFail(c)
    \/ \E c \in ConnIds : TransportFail(c)

\* ---- HTTP traffic on one session --------------------------------------------
HttpNext ==
    \/ SessionNext({FALSE})
    \/ \E c \in ConnIds : ReadRequest(c, "http_request")
    \/ \E x \in ReqIds : HTTPForward(x)
    \/ \E x \in ReqIds : HTTPSend(x)

HttpSpec == Init /\ [][HttpNext]_vars

\* ---- WebSocket upgrades on one session, origin to edge ----------------------
WsNext ==
    \/ SessionNext({FALSE})
    \/ \E c \in ConnIds : ReadRequest(c, "websocket_upgrade")
    \/ \E x \in ReqIds : WSDial(x)
    \/ \E x \in ReqIds : WSRespond(x)
    \/ \E x \in ReqIds, mt \in MessageTypes : WSForward(x, mt)
    \/ \E x \in ReqIds : WSLocalClose(x)

WsSpec == Init /\ [][WsNext]_vars

\* ---- the same with the edge's websocket_data frames -------------------------
WsDataNext ==
    \/ WsNext
    \/ \E c \in ConnIds, x \in ReqIds : ReadWsData(c, x)
    \/ \E x \in ReqIds : HandleWebSocketData(x)

WsDataSpec == Init /\ [][WsDataNext]_vars

\* ---- terminate frames on one session and its supervisor ---------------------
TermNext ==
    \/ SessionNext(BOOLEAN)
    \/ MonitorTick(1)
    \/ MonitorDial(1)
    \/ MonitorWake(1)
    \/ \E c \in ConnIds : ReadRequest(c, "terminate")
    \/ \E x \in ReqIds : Terminate(x)

TermSpec == Init /\ [][TermNext]_vars

\* ---- the supervision of sessions: connect, retry, monitor, disconnect ------
Next ==
    \/ \E k \in Calls, t \in Tunnels, auto \in BOOLEAN : CallStart(k, t, auto)
    \/ \E k \in Calls : CallDial(k)
    \/ \E k \in Calls : CallWake(k)
    \/ \E k \in Calls : MonitorTick(k)
    \/ \E k \in Calls : MonitorDial(k)
    \/ \E k \in Calls : MonitorWake(k)
    \/ \E t \in Tunnels : ManagerDisconnect(t)
    \/ \E c \in ConnIds : HandlerStart(c)
    \/ \E c \in ConnIds : ReadError(c)
    \/ \E c \in ConnIds : HandlerDelete(c)
    \/ \E c \in ConnIds : HandlerClose(c)
    \/ \E c \in ConnIds : TransportFail(c)

Spec == Init /\ [][Next]_vars

\* ---- two concurrent connects of one tunnel and their supervisors -------------
TwoCallers == {1, 2}

ConnectNext ==
    \/ \E k \in TwoCallers, auto \in BOOLEAN : CallStart(k, "t1", auto)
    \/ \E k \in TwoCallers : CallDial(k)
    \/ \E k \in TwoCallers : CallWake(k)
    \/ \E k \in TwoCallers : MonitorTick(k)
    \/ \E k \in TwoCallers : MonitorDial(k)
    \/ \E k \in TwoCallers : MonitorWake(k)
    \/ \E t \in Tunnels : ManagerDisconnect(t)
    \/ \E c \in ConnIds : HandlerStart(c)
    \/ \E c \in ConnIds : ReadError(c)
    \/ \E c \in ConnIds : HandlerDelete(c)
    \/ \E c \in ConnIds : HandlerClose(c)
    \/ \E c \in ConnIds : TransportFail(c)

ConnectSpec == Init /\ [][ConnectNext]_vars

\* ---- the claims ---------------------------------------------------------------

\* a transport: an open edge connection whose reader is in its read loop
Transport(c) == conns[c].sock = "open" /\ handler[c] = "read"

TransportsOf(t) == {c \in 1..numConns : conns[c].tunnel = t /\ Transport(c)}

\* C1: for every tunnel, at most one transport (an open edge connection with a
\* running reader) exists at any instant, under every interleaving of connect,
\* disconnect, supervisor reconnect and handler cleanup.
C1_AtMostOneTransport == \A t \in Tunnels : Cardinality(TransportsOf(t)) <= 1

\* a ConnectTunnel call left the registry, the connections and the dial counts alone
NothingDialed == UNCHANGED <<activeTunnels, conns, numConns, handler, fails>>

\* a step of ConnectTunnelWithRetry k out of its dial on a registered tunnel
CallDialsRegistered(k) ==
    /\ call[k].pc = "dial"
    /\ IsConnected(call[k].tunnel)
    /\ call'[k] # call[k]

\* a step of monitorAndReconnect k out of its dial on a registered tunnel
MonitorDialsRegistered(k) ==
    /\ mon[k].pc = "dial"
    /\ mon[k].attempt < maxReconnectAttempts
    /\ IsConnected(mon[k].tunnel)
    /\ mon'[k] # mon[k]

\* a step in which ConnectTunnel of caller k succeeds
CallSucceeds(k) == call[k].pc = "dial" /\ call'[k].pc = "ret_ok"

\* C2: ConnectTunnel for a registered tunnel returns 'already connected' without
\* dialing and leaves the registry unchanged; a connect succeeds only on an
\* unregistered tunnel, which it registers, so of two concurrent connects the
\* second one to take the lock fails; ConnectTunnelWithRetry and
\* monitorAndReconnect return on that error at once, with no backoff sleep and
\* no failed attempt counted.
C2_AlreadyConnected ==
    [][ \A k \in Calls :
          /\ CallDialsRegistered(k) =>
               /\ NothingDialed
               /\ call'[k].pc = "ret_err" /\ call'[k].err = "already"
               /\ call'[k].attempt = call[k].attempt /\ call'[k].delay = 0
               /\ mon' = mon
          /\ MonitorDialsRegistered(k) =>
               /\ NothingDialed
               /\ mon'[k].pc = "already" /\ mon'[k].delay = 0
          /\ CallSucceeds(k) =>
               /\ ~IsConnected(call[k].tunnel)
               /\ activeTunnels'[call[k].tunnel] = numConns'
               /\ numConns' = numConns + 1
               /\ \A j \in Calls \ {k} : call'[j] = call[j]
      ]_vars

\* two connects of one tunnel have returned: one succeeded, the other was told
\* 'already connected'
C2_Witness ==
    \E k \in Calls, j \in Calls :
        /\ call[k].pc = "ret_ok" /\ call[j].pc = "ret_err" /\ call[j].err = "already"
        /\ call[k].tunnel = call[j].tunnel
        /\ call[j].attempt = 0

\* C8: after DisconnectTunnel(t) has returned, t stays out of the registry until
\* the next explicit connect: no supervisor re-dials it.
C8_DisconnectedStays == \A t \in Tunnels : life[t] = "disconnected" => ~IsConnected(t)

\* C9: after a terminate frame was handled the session has ended: the tunnel is
\* not re-dialed by any supervisor, so no open transport is registered for it.
C9_TerminatedStays ==
    \A t \in Tunnels :
        life[t] = "terminated" => ~(IsConnected(t) /\ Writable(activeTunnels[t]))

\* C10: a tunnel connected in persistent mode is still supervised after each
\* successful reconnect: while it is registered, a monitorAndReconnect goroutine
\* is running for it.
C10_StillSupervised ==
    \A t \in Tunnels :
        (life[t] = "persistent" /\ IsConnected(t)) =>
            \E k \in Calls : MonitorRunning(k) /\ mon[k].tunnel = t

\* ---- one request's goroutine and what it wrote ------------------------------
IsHTTP(x) == tasks[x].type = "http_request"

IsUpgrade(x) == tasks[x].type = "websocket_upgrade"

OriginFailed(x) == tasks[x].origin \in {"build_fail", "connect_fail", "read_fail"}

\* the request was handled to its end on a transport that is still writable
HandledWritable(x) == tasks[x].pc = "done" /\ Writable(tasks[x].conn)

FramesOf(x, type) == {i \in DOMAIN tasks[x].wrote : tasks[x].wrote[i].type = type}

\* C3: an http_request with id X handled while the transport stays writable gets
\* exactly one http_response with id X, whether the origin call succeeded or
\* failed; no request is ever answered twice, and no response carries the id of
\* another request.
C3_OneResponsePerRequest ==
    \A x \in ReqIds :
        IsHTTP(x) =>
            /\ \A i \in DOMAIN tasks[x].wrote :
                 tasks[x].wrote[i].type = "http_response" /\ tasks[x].wrote[i].id = x
            /\ Len(tasks[x].wrote) <= 1
            /\ HandledWritable(x) => Len(tasks[x].wrote) = 1

\* two requests were in flight on one writable transport and both are answered,
\* one of them after its origin call failed
C3_Witness ==
    \E x \in ReqIds, y \in ReqIds :
        /\ x # y /\ IsHTTP(x) /\ IsHTTP(y) /\ tasks[x].conn = tasks[y].conn
        /\ HandledWritable(x) /\ HandledWritable(y)
        /\ OriginFailed(x) /\ ~OriginFailed(y)

\* C4: when forwarding an http_request to the origin fails (building the request,
\* connecting to the local port, reading the body), the http_response prepared
\* and written for that id has status 502 and a non-empty error field.
C4_OriginFailureIs502 ==
    \A x \in ReqIds :
        (IsHTTP(x) /\ OriginFailed(x)) =>
            /\ tasks[x].resp.status = StatusBadGateway
            /\ tasks[x].resp.error # ""
            /\ \A i \in DOMAIN tasks[x].wrote :
                 /\ tasks[x].wrote[i].status = StatusBadGateway
                 /\ tasks[x].wrote[i].error # ""

\* every kind of origin failure has been answered
C4_Witness ==
    \E x \in ReqIds, y \in ReqIds :
        /\ IsHTTP(x) /\ tasks[x].origin = "connect_fail" /\ Len(tasks[x].wrote) = 1
        /\ IsHTTP(y) /\ tasks[y].origin = "read_fail" /\ Len(tasks[y].wrote) = 1

\* what ends a session: the registry entry, the socket, the context, the reader
SessionOf(c) ==
    <<conns[c].sock, conns[c].cancelled, conns[c].closeSent, handler[c], hb[c],
      {t \in Tunnels : activeTunnels[t] = c}>>

\* a step of the goroutine of http_request x whose origin call failed
FailedRequestStep(x) ==
    /\ IsHTTP(x)
    /\ tasks'[x] # tasks[x]
    /\ tasks'[x].origin \in {"build_fail", "connect_fail", "read_fail"}

\* C5: a failed origin request never ends the session: no step of its goroutine
\* removes the tunnel from the registry, closes the transport, cancels the
\* session context, stops the reader or touches another request; and a request
\* that arrives later on the same session, handled while the transport is
\* writable, is answered.
C5_FailureKeepsSession ==
    /\ [][ \A x \in ReqIds :
             FailedRequestStep(x) =>
                 /\ \A c \in ConnIds : SessionOf(c)' = SessionOf(c)
                 /\ activeTunnels' = activeTunnels
                 /\ \A y \in ReqIds \ {x} : tasks'[y] = tasks[y]
         ]_vars
    /\ [](\A x \in ReqIds, y \in ReqIds :
             (/\ x < y /\ IsHTTP(x) /\ IsHTTP(y) /\ tasks[x].conn = tasks[y].conn
              /\ OriginFailed(x) /\ tasks[x].pc = "done" /\ HandledWritable(y))
             => Len(tasks[y].wrote) = 1)

\* a request failed at the origin and was answered with 502; a later request on
\* the same session was forwarded and answered with the origin's status
C5_Witness ==
    \E x \in ReqIds, y \in ReqIds :
        /\ x < y /\ IsHTTP(x) /\ IsHTTP(y) /\ tasks[x].conn = tasks[y].conn
        /\ OriginFailed(x) /\ tasks[x].pc = "done" /\ Len(tasks[x].wrote) = 1
        /\ HandledWritable(y) /\ tasks[y].origin = "ok" /\ Len(tasks[y].wrote) = 1
        /\ activeTunnels[conns[tasks[x].conn].tunnel] = tasks[x].conn

\* the local dial of upgrade x was made and succeeded / failed
LocalDialed(x) == IsUpgrade(x) /\ tasks[x].origin = "ok"

LocalDialFailed(x) == IsUpgrade(x) /\ tasks[x].origin = "connect_fail"

\* C6: for a websocket_upgrade with id X: if the local dial succeeds, exactly one
\* websocket_upgrade_response with id X and status 101 is written (the
\* transport being writable), and before any websocket_data with id X; if the
\* dial fails, exactly one websocket_upgrade_response with id X, status 502 and
\* a non-empty error is written and no websocket_data with id X.
C6_UpgradeResponse ==
    \A x \in ReqIds :
        IsUpgrade(x) =>
            LET w == tasks[x].wrote
                sent == tasks[x].pc \in {"forward", "done"} /\ Writable(tasks[x].conn)
            IN  /\ \A i \in DOMAIN w : w[i].id = x
                /\ Cardinality(FramesOf(x, "websocket_upgrade_response")) <= 1
                /\ sent => Cardinality(FramesOf(x, "websocket_upgrade_response")) = 1
                /\ w # <<>> => w[1].type = "websocket_upgrade_response"
                /\ \A i \in DOMAIN w : i > 1 => w[i].type = "websocket_data"
                /\ LocalDialed(x) =>
                     (w # <<>> => w[1].status = StatusSwitchingProtocols)
                /\ LocalDialFailed(x) =>
                     /\ Len(w) <= 1
                     /\ w # <<>> => (w[1].status = StatusBadGateway /\ w[1].error # "")

\* an upgrade was accepted with 101 and data of the bridged socket followed it
C6_Witness ==
    \E x \in ReqIds :
        /\ LocalDialed(x) /\ Len(tasks[x].wrote) >= 2
        /\ tasks[x].wrote[1].status = StatusSwitchingProtocols
        /\ tasks[x].wrote[2].type = "websocket_data"

\* C7: every inbound websocket_data frame with id X that arrived after a
\* successful upgrade for X is written to the local WebSocket bridged for X, in
\* the order of arrival: once its frames are handled, the bridged socket has
\* been sent the bodies 1..arrived in that order.
C7_InboundDataWritten ==
    \A x \in ReqIds :
        (/\ IsUpgrade(x) /\ tasks[x].pc = "forward" /\ tasks[x].local = "open"
         /\ tasks[x].pending = 0)
        => tasks[x].written = [i \in 1..tasks[x].arrived |-> i]

\* ---- the retry loops of one caller while the edge refuses dials -------------
RetryNext ==
    \/ \E auto \in BOOLEAN : CallStart(1, "t1", auto)
    \/ CallDialWithin(1, MaxRetryFails)
    \/ CallWake(1)
    \/ MonitorTick(1)
    \/ MonitorDialWithin(1, MaxRetryFails)
    \/ MonitorWake(1)
    \/ \E c \in ConnIds : HandlerStart(c)
    \/ \E c \in ConnIds : ReadError(c)
    \/ \E c \in ConnIds : HandlerDelete(c)
    \/ \E c \in ConnIds : HandlerClose(c)
    \/ \E c \in ConnIds : TransportFail(c)

RetrySpec == Init /\ [][RetryNext]_vars

\* C11: in ephemeral mode ConnectTunnelWithRetry makes at most 5 dial attempts;
\* when all 5 have failed it returns an error, the registry holds no entry for
\* the tunnel and no supervisor goroutine runs for it.
C11_EphemeralGivesUp ==
    \A k \in Calls :
        (call[k].pc # "idle" /\ ~call[k].auto) =>
            /\ fails <= maxRetries
            /\ call[k].pc \in {"dial", "sleep"} =>
                 (call[k].attempt = fails /\ (call[k].pc = "dial" => fails < maxRetries))
            /\ call[k].pc # "sleep" \/ fails < maxRetries
            /\ call[k].pc = "ret_err" =>
                 /\ fails = maxRetries
                 /\ ~IsConnected(call[k].tunnel)
                 /\ mon[k] = NoMonitor

\* an ephemeral connect has returned its error after five failed dials
C11_Witness ==
    \E k \in Calls :
        /\ call[k].pc = "ret_err" /\ ~call[k].auto /\ call[k].err # "already"
        /\ fails = maxRetries /\ numConns = 0

\* a step in which a dial of monitorAndReconnect k fails
MonitorDialFails(k) == mon[k].pc = "dial" /\ fails' = fails + 1

\* C12: after the transport of a persistent tunnel is lost, monitorAndReconnect
\* makes at most 10 consecutive failed dial attempts, each one counted, and then
\* stops for good: it makes no further dial and the tunnel stays out of the
\* registry.
C12_MonitorGivesUp ==
    /\ [](\A k \in Calls :
            /\ mon[k].attempt <= maxReconnectAttempts
            /\ mon[k].pc = "gaveup" =>
                 (mon[k].attempt = maxReconnectAttempts /\ ~IsConnected(mon[k].tunnel)))
    /\ [][ \A k \in Calls :
             /\ MonitorDialFails(k) =>
                  /\ mon[k].attempt < maxReconnectAttempts
                  /\ mon'[k].attempt = mon[k].attempt + 1
             /\ mon[k].pc = "gaveup" =>
                  /\ mon'[k] = mon[k]
                  /\ UNCHANGED <<activeTunnels, numConns, fails>>
         ]_vars

\* the supervisor has given up after ten failed dials in a row
C12_Witness ==
    \E k \in Calls :
        /\ mon[k].pc = "gaveup" /\ mon[k].attempt = maxReconnectAttempts
        /\ fails >= maxReconnectAttempts /\ ~IsConnected(mon[k].tunnel)

\* min(60 s, 2 s * 2^(k-1)): the delay after the k-th failed dial in a row
DelayAfter(k) == LET d == 2 * 2^(k - 1) IN IF d > 60 THEN 60 ELSE d

\* C13: when k dials have failed in a row, the delay before the next retry is
\* min(60 s, 2 s * 2^(k-1)) for every k >= 1, in ConnectTunnelWithRetry (both
\* modes) and in monitorAndReconnect; it stays at 60 s for k >= 6.
C13_BackoffDelay ==
    \A k \in Calls :
        /\ (call[k].pc = "sleep" /\ numConns = 0) => call[k].delay = DelayAfter(fails)
        /\ mon[k].pc = "sleep" => mon[k].delay = DelayAfter(mon[k].attempt)

\* C14: a dial that the edge rejects for credential reasons is never retried: the
\* connect returns the error after the first such failure, so no caller is
\* ever in a backoff sleep after a rejected dial.
C14_RejectedNotRetried ==
    \A k \in Calls : call[k].pc = "sleep" => call[k].err # "rejected"

\* ---- connects while the edge cannot be reached: every dial fails -------------
\* ConnectTunnel returns the dial error and changes nothing
CallDialOutage(k) ==
    /\ call[k].pc = "dial"
    /\ call' = [call EXCEPT ![k] =
                  AfterConnect(call[k], ConnectResult(call[k].tunnel, "unreachable"))]
    /\ UNCHANGED <<activeTunnels, conns, numConns, handler, hb, mon, fails, life>>
    /\ UNCHANGED protoVars
    /\ UNCHANGED svcVars

OutageNext ==
    \/ \E k \in Calls, t \in Tunnels, auto \in BOOLEAN : CallStart(k, t, auto)
    \/ \E k \in Calls : CallDialOutage(k)
    \/ \E k \in Calls : CallWake(k)

\* a goroutine that can run does run: the dial returns and the sleep ends
OutageSpec ==
    /\ Init
    /\ [][OutageNext]_vars
    /\ \A k \in Calls : WF_vars(CallDialOutage(k)) /\ WF_vars(CallWake(k))

\* C15: every connect call eventually returns, connected or failed, in
\* persistent mode too when every dial fails.
C15_ConnectReturns ==
    \A k \in Calls : (call[k].pc = "dial") ~> (call[k].pc \in {"ret_ok", "ret_err"})

\* ---- tunnels are connected, then the network changes or the user logs out ----
\* no connect the user asked for is still under way
NoUserConnectPending == \A k \in Calls : call[k].pc \notin {"dial", "sleep"}

\* the user connects tunnels only before the event
ConnectBeforeEvent(k, t, auto) == sweep.pc = "idle" /\ CallStart(k, t, auto)

\* the event comes when every connect of the user has returned
EventStart(kind) == NoUserConnectPending /\ SweepStart(kind)

SweepNext ==
    \/ \E k \in Calls, t \in Tunnels, auto \in BOOLEAN : ConnectBeforeEvent(k, t, auto)
    \/ \E k \in Calls : CallDial(k)
    \/ \E k \in Calls : CallWake(k)
    \/ \E k \in Calls : MonitorTick(k)
    \/ \E k \in Calls : MonitorDial(k)
    \/ \E k \in Calls : MonitorWake(k)
    \/ \E c \in ConnIds : HandlerStart(c)
    \/ \E c \in ConnIds : ReadError(c)
    \/ \E c \in ConnIds : HandlerDelete(c)
    \/ \E c \in ConnIds : HandlerClose(c)
    \/ \E kind \in SweepKinds : EventStart(kind)
    \/ \E t \in Tunnels : SweepDisconnect(t)
    \/ SweepSettle
    \/ \E t \in Tunnels : SweepConnect(t)
    \/ SweepDial
    \/ SweepWake
    \/ SweepReturn

SweepSpec == Init /\ [][SweepNext]_vars

\* C16: when handleIPChange has disconnected every tunnel that was connected
\* and is in its settling delay, none of them has been dialed again: as long as
\* the delay lasts, none of them is in the registry.
C16_SettleBeforeRedial ==
    (sweep.kind = "netchange" /\ sweep.pc = "settle") =>
        \A t \in sweep.snap : ~IsConnected(t)

\* C17: after OnUserLogout has returned, no session is registered: no tunnel is
\* in the registry, the tunnels connected with auto-reconnect included.
C17_LoggedOutStaysDown ==
    (sweep.kind = "logout" /\ sweep.pc = "done") => GetActiveTunnels = {}

\* ---- one session with HTTP traffic, watched by the health monitor -----------
\* the edge sends one request, on a session whose last health check failed
RequestAfterFailedProbe(c) ==
    /\ numReqs = 0
    /\ conns[c].tunnel \in Tunnels
    /\ lastProbe[conns[c].tunnel] \in {"origin_down", "dns_down"}
    /\ ReadRequest(c, "http_request")

HealthNext ==
    \/ CallStart(1, "t1", FALSE)
    \/ CallDial(1)
    \/ CallWake(1)
    \/ \E c \in ConnIds : HandlerStart(c)
    \/ \E c \in ConnIds : ReadError(c)
    \/ \E c \in ConnIds : HandlerDelete(c)
    \/ \E c \in ConnIds : HandlerClose(c)
    \/ \E c \in ConnIds : TransportFail(c)
    \/ \E c \in ConnIds : RequestAfterFailedProbe(c)
    \/ \E x \in ReqIds : HTTPForward(x)
    \/ \E x \in ReqIds : HTTPSend(x)
    \/ PerformHealthCheck
    \/ ReconnectTick
    \/ \E t \in Tunnels : ProcessQueued(t)
    \/ QueueDial
    \/ QueueWake
    \/ QueueReturn

HealthSpec == Init /\ [][HealthNext]_vars

\* a step of the health monitor: a health check or a step of its reconnect loop
HealthMonitorStep == hmVars' # hmVars

\* C18: a failed origin or DNS probe is a soft signal: no step of the health
\* monitor (the check itself, the queue entry it makes, the reconnect the queue
\* leads to) closes the transport of a connected tunnel, cancels its session,
\* ends its reader or heartbeat, takes it out of the registry or touches a
\* request in flight; requests read from that session are still answered.
C18_ProbeFailureIsSoft ==
    [][ HealthMonitorStep =>
          /\ \A t \in Tunnels :
               IsConnected(t) =>
                   /\ activeTunnels'[t] = activeTunnels[t]
                   /\ conns'[activeTunnels[t]] = conns[activeTunnels[t]]
                   /\ handler'[activeTunnels[t]] = handler[activeTunnels[t]]
                   /\ hb'[activeTunnels[t]] = hb[activeTunnels[t]]
          /\ tasks' = tasks
      ]_vars

\* the origin probe of a connected tunnel has failed, the reconnect loop has
\* visited its queue entry, and the session has answered a request with 502
C18_Witness ==
    \E t \in Tunnels, x \in ReqIds :
        /\ lastProbe[t] = "origin_down" /\ reconnectQueue[t] >= 2
        /\ IsConnected(t) /\ Writable(activeTunnels[t])
        /\ handler[activeTunnels[t]] = "read"
        /\ tasks[x].conn = activeTunnels[t] /\ tasks[x].pc = "done"
        /\ Len(tasks[x].wrote) = 1 /\ tasks[x].wrote[1].status = StatusBadGateway

\* C19: the retry count of a tunnel counts consecutive failed health checks: a
\* health check that succeeds resets it, so after a successful check the
\* tunnel has no count in the reconnect queue.
C19_SuccessResetsCount ==
    \A t \in Tunnels : lastProbe[t] = "ok" => reconnectQueue[t] = 0

\* ---- WebSocket bridges on one session, every goroutine of the agent running --
\* a goroutine of the agent that can take its step takes it; what the edge,
\* the origin and the user do (a frame, a message or a close of the local
\* WebSocket, a disconnect) may never come
WsFairSpec ==
    /\ Init
    /\ [][WsNext]_vars
    /\ WF_vars(CallDial(1))
    /\ WF_vars(CallWake(1))
    /\ \A c \in ConnIds :
         /\ WF_vars(HandlerStart(c))
         /\ WF_vars(ReadError(c))
         /\ WF_vars(HandlerDelete(c))
         /\ WF_vars(HandlerClose(c))
         /\ WF_vars(HeartbeatStop(c))
         /\ WF_vars(HeartbeatFail(c))
    /\ \A x \in ReqIds :
         /\ WF_vars(WSDial(x))
         /\ WF_vars(WSRespond(x))

\* nothing of session c is left: reader and heartbeat are gone, the transport
\* is closed, no goroutine of a request of c runs, no local WebSocket is open
SessionGone(c) ==
    /\ handler[c] = "exited"
    /\ hb[c] # "run"
    /\ conns[c].sock = "closed"
    /\ \A x \in ReqIds :
         tasks[x].conn = c => (tasks[x].pc = "done" /\ tasks[x].local # "open")

\* C20: once the context of a session is cancelled (by DisconnectTunnel, by a
\* failed heartbeat or by the reader's exit), eventually nothing of the session
\* is left: heartbeat and reader have ended, the transport is closed and the
\* local WebSocket of every bridged id is closed.
C20_CancelEndsSession ==
    \A c \in ConnIds : conns[c].cancelled ~> SessionGone(c)

\* ---- connects and repeated disconnects of two tunnels -------------------------
\* t1 is connected in either mode, then t2 without auto-reconnect
DisconnectNext ==
    \/ \E auto \in BOOLEAN : CallStart(1, "t1", auto)
    \/ CallStart(2, "t2", FALSE)
    \/ \E k \in TwoCallers : CallDial(k)
    \/ \E k \in TwoCallers : CallWake(k)
    \/ MonitorTick(1)
    \/ MonitorDial(1)
    \/ MonitorWake(1)
    \/ \E t \in Tunnels : DisconnectCall(t)
    \/ \E c \in ConnIds : HandlerStart(c)
    \/ \E c \in ConnIds : ReadError(c)
    \/ \E c \in ConnIds : HandlerDelete(c)
    \/ \E c \in ConnIds : HandlerClose(c)

DisconnectSpec == Init /\ [][DisconnectNext]_vars

\* this step is a call of DisconnectTunnel(t)
DisconnectReturns(t) == disc'[t].calls = disc[t].calls + 1

\* C21: a call of DisconnectTunnel(t) that finds t in the registry leaves t out
\* of the registry with its context cancelled and its transport closed; a call
\* that finds t out of the registry (the second of two calls) returns "tunnel
\* not connected", changes nothing and sends no close frame. Neither touches
\* the session of another tunnel.
C21_DisconnectIdempotent ==
    [][ \A t \in Tunnels :
          DisconnectReturns(t) =>
            /\ ~IsConnected(t)'
            /\ \A u \in Tunnels \ {t} : activeTunnels'[u] = activeTunnels[u]
            /\ \A c \in ConnIds : conns[c].tunnel # t => conns'[c] = conns[c]
            /\ IF IsConnected(t)
               THEN /\ disc'[t].err = ""
                    /\ conns'[activeTunnels[t]].cancelled
                    /\ conns'[activeTunnels[t]].sock = "closed"
               ELSE /\ disc'[t].err = "tunnel not connected"
                    /\ UNCHANGED <<activeTunnels, conns, numConns, handler, hb, call,
                                   mon, fails, life, tasks, numReqs>>
      ]_vars

\* DisconnectTunnel(t) was called twice in a row: the first call closed the
\* session, the second returned the error
C21_Witness ==
    \E t \in Tunnels, c \in ConnIds :
        /\ disc[t].calls = 2 /\ disc[t].err = "tunnel not connected"
        /\ life[t] = "disconnected" /\ ~IsConnected(t)
        /\ conns[c].tunnel = t /\ conns[c].cancelled /\ conns[c].sock = "closed"
        /\ conns[c].closeSent

\* request x waits for its origin call or for the write of its response
InFlight(x) == IsHTTP(x) /\ tasks[x].pc \in {"new", "send"}

\* C22: http_request frames are not serialized. While a request is in flight on
\* a live session, the reader is back in its read (it can read the next frame)
\* and every other request in flight can take its own next step: be forwarded
\* to the origin, or have its response written.
C22_RequestsNotSerialized ==
    \A c \in ConnIds, x \in ReqIds :
        (InFlight(x) /\ tasks[x].conn = c /\ ~conns[c].cancelled /\ Writable(c)) =>
            /\ handler[c] = "read"
            /\ numReqs < MaxReqs => ENABLED ReadRequest(c, "http_request")
            /\ \A y \in ReqIds :
                 /\ (IsHTTP(y) /\ tasks[y].pc = "new") => ENABLED HTTPForward(y)
                 /\ (IsHTTP(y) /\ tasks[y].pc = "send") => ENABLED HTTPSend(y)

\* the first request still waits for its origin while a request read after it
\* has been answered on the same session
C22_Witness ==
    \E x, y \in ReqIds :
        /\ x < y /\ tasks[x].conn = tasks[y].conn
        /\ IsHTTP(x) /\ tasks[x].pc = "new"
        /\ IsHTTP(y) /\ tasks[y].pc = "done" /\ Len(tasks[y].wrote) = 1
        /\ Writable(tasks[x].conn) /\ handler[tasks[x].conn] = "read"

\* C23: GetActiveTunnels lists only sessions that are connected or degraded: a
\* tunnel in the list has a session whose context is not cancelled and whose
\* status is not "error"; and IsConnected(t) holds exactly for the tunnels
\* of the list.
C23_ListedIsLive ==
    /\ \A t \in Tunnels : IsConnected(t) <=> t \in GetActiveTunnels
    /\ \A t \in GetActiveTunnels :
         /\ ~conns[activeTunnels[t]].cancelled
         /\ conns[activeTunnels[t]].status # "error"

\* ---- encoding/json on a TunnelMessage ---------------------------------------
\* A string is a sequence of characters; a run of letters that need no escape
\* stands as one character.
Quote == "\""
Backslash == "\\"
LessThan == "<"
InvalidByte == "xFF"            \* a byte that is not valid UTF-8
ReplacementChar == "uFFFD"      \* U+FFFD

EscapeCharRaw(ch) == <<ch>>

\* what json.Marshal writes for one character of a string
EscapeChar(ch) ==
    IF ch = Quote THEN <<Backslash, Quote>>
    ELSE IF ch = Backslash THEN <<Backslash, Backslash>>
    ELSE IF ch = LessThan THEN <<Backslash, "u", "003c">>
    ELSE IF ch = InvalidByte THEN <<Backslash, "u", "fffd">>
    ELSE <<ch>>

RECURSIVE EncodeString(_)
EncodeString(str) ==
    IF str = <<>> THEN <<>> ELSE EscapeChar(Head(str)) \o EncodeString(Tail(str))

DecodeError == [ok |-> FALSE, val |-> <<>>]

Decoded(ch, rest) == IF rest.ok THEN [ok |-> TRUE, val |-> <<ch>> \o rest.val] ELSE rest

\* what json.Unmarshal reads from the text between the quotes of a string
RECURSIVE DecodeString(_)
DecodeString(w) ==
    IF w = <<>> THEN [ok |-> TRUE, val |-> <<>>]
    ELSE IF Head(w) = Quote THEN DecodeError
    ELSE IF Head(w) = InvalidByte THEN Decoded(ReplacementChar, DecodeString(Tail(w)))
    ELSE IF Head(w) # Backslash THEN Decoded(Head(w), DecodeString(Tail(w)))
    ELSE IF Len(w) >= 2 /\ w[2] \in {Quote, Backslash}
         THEN Decoded(w[2], DecodeString(SubSeq(w, 3, Len(w))))
    ELSE IF Len(w) >= 3 /\ w[2] = "u" /\ w[3] \in {"003c", "fffd"}
         THEN Decoded(IF w[3] = "003c" THEN LessThan ELSE ReplacementChar,
                      DecodeString(SubSeq(w, 4, Len(w))))
    ELSE DecodeError

\* []byte travels as padded base64: sextets 0..63, B64Pad for "="
B64Pad == 64

RECURSIVE EncodeBase64(_)
EncodeBase64(b) ==
    IF b = <<>> THEN <<>>
    ELSE IF Len(b) = 1 THEN <<b[1] \div 4, (b[1] % 4) * 16, B64Pad, B64Pad>>
    ELSE IF Len(b) = 2
         THEN <<b[1] \div 4, (b[1] % 4) * 16 + b[2] \div 16, (b[2] % 16) * 4, B64Pad>>
    ELSE <<b[1] \div 4, (b[1] % 4) * 16 + b[2] \div 16,
           (b[2] % 16) * 4 + b[3] \div 64, b[3] % 64>>
         \o EncodeBase64(SubSeq(b, 4, Len(b)))

RECURSIVE DecodeBase64(_)
DecodeBase64(w) ==
    IF w = <<>> THEN [ok |-> TRUE, val |-> <<>>]
    ELSE IF Len(w) < 4 \/ w[1] = B64Pad \/ w[2] = B64Pad THEN DecodeError
    ELSE LET b1 == w[1] * 4 + w[2] \div 16
             b2 == (w[2] % 16) * 16 + w[3] \div 4
             b3 == (w[3] % 4) * 64 + w[4]
         IN  IF w[3] = B64Pad
             THEN IF w[4] = B64Pad /\ Len(w) = 4
                  THEN [ok |-> TRUE, val |-> <<b1>>] ELSE DecodeError
             ELSE IF w[4] = B64Pad
             THEN IF Len(w) = 4 THEN [ok |-> TRUE, val |-> <<b1, b2>>] ELSE DecodeError
             ELSE LET rest == DecodeBase64(SubSeq(w, 5, Len(w)))
                  IN  IF rest.ok THEN [ok |-> TRUE, val |-> <<b1, b2, b3>> \o rest.val]
                      ELSE rest

\* integers travel as decimal digits, written here as their ASCII codes
AsciiZero == 48
AsciiMinus == 45

RECURSIVE FormatInt(_)
FormatInt(n) ==
    IF n < 0 THEN <<AsciiMinus>> \o FormatInt(0 - n)
    ELSE IF n < 10 THEN <<AsciiZero + n>>
    ELSE FormatInt(n \div 10) \o <<AsciiZero + (n % 10)>>

RECURSIVE ParseDigits(_)
ParseDigits(d) ==
    IF d = <<>> THEN 0
    ELSE ParseDigits(SubSeq(d, 1, Len(d) - 1)) * 10 + (d[Len(d)] - AsciiZero)

ParseInt(d) ==
    IF d = <<>> THEN DecodeError
    ELSE IF Head(d) = AsciiMinus
         THEN IF Len(d) = 1 THEN DecodeError
              ELSE [ok |-> TRUE, val |-> 0 - ParseDigits(Tail(d))]
    ELSE [ok |-> TRUE, val |-> ParseDigits(d)]

\* TunnelMessage. Headers and Body may be nil: nil tells a nil map or slice
\* from an empty one
NilHeaders == [nil |-> TRUE, kv |-> <<>>]
NilBody == [nil |-> TRUE, bytes |-> <<>>]

TunnelMessage(type, id, method, url, headers, body, status, error, timestamp) ==
    [Type |-> type, ID |-> id, Method |-> method, URL |-> url, Headers |-> headers,
     Body |-> body, Status |-> status, Error |-> error, Timestamp |-> timestamp]

\* the keys with omitempty that json.Marshal writes for m
KeysWritten(m) ==
    {"type", "id", "timestamp"}
        \cup (IF m.Method # <<>> THEN {"method"} ELSE {})
        \cup (IF m.URL # <<>> THEN {"url"} ELSE {})
        \cup (IF DOMAIN m.Headers.kv # {} THEN {"headers"} ELSE {})
        \cup (IF m.Body.bytes # <<>> THEN {"body"} ELSE {})
        \cup (IF m.Status # 0 THEN {"status"} ELSE {})
        \cup (IF m.Error # <<>> THEN {"error"} ELSE {})

\* json.Marshal(message): the keys of the object and the text of each value
Marshal(m) ==
    [keys |-> KeysWritten(m),
     type |-> EncodeString(m.Type), id |-> EncodeString(m.ID),
     method |-> EncodeString(m.Method), url |-> EncodeString(m.URL),
     headers |-> [h \in DOMAIN m.Headers.kv |-> EncodeString(m.Headers.kv[h])],
     body |-> EncodeBase64(m.Body.bytes),
     status |-> FormatInt(m.Status), error |-> EncodeString(m.Error),
     timestamp |-> FormatInt(m.Timestamp)]

\* the value of a key of w, or the zero value of the field when w has no such key
StringAt(w, key, text) ==
    IF key \in w.keys THEN DecodeString(text) ELSE [ok |-> TRUE, val |-> <<>>]

IntAt(w, key, text) == IF key \in w.keys THEN ParseInt(text) ELSE [ok |-> TRUE, val |-> 0]

\* json.Unmarshal(messageBytes, &message) on a zero TunnelMessage
Unmarshal(w) ==
    LET type == StringAt(w, "type", w.type)
        id == StringAt(w, "id", w.id)
        method == StringAt(w, "method", w.method)
        url == StringAt(w, "url", w.url)
        error == StringAt(w, "error", w.error)
        status == IntAt(w, "status", w.status)
        timestamp == IntAt(w, "timestamp", w.timestamp)
        body == IF "body" \in w.keys THEN DecodeBase64(w.body)
                ELSE [ok |-> TRUE, val |-> <<>>]
        values == [h \in DOMAIN w.headers |-> DecodeString(w.headers[h])]
    IN  IF /\ type.ok /\ id.ok /\ method.ok /\ url.ok /\ error.ok /\ status.ok
           /\ timestamp.ok /\ body.ok
           /\ \A h \in DOMAIN w.headers : values[h].ok
        THEN [ok |-> TRUE,
              msg |-> TunnelMessage(type.val, id.val, method.val, url.val,
                         IF "headers" \in w.keys
                         THEN [nil |-> FALSE,
                               kv |-> [h \in DOMAIN w.headers |-> values[h].val]]
                         ELSE NilHeaders,
                         IF "body" \in w.keys THEN [nil |-> FALSE, bytes |-> body.val]
                         ELSE NilBody,
                         status.val, error.val, timestamp.val)]
        ELSE [ok |-> FALSE]

\* the messages of a run
RECURSIVE SeqsUpTo(_, _)
SeqsUpTo(S, n) ==
    IF n = 0 THEN {<<>>}
    ELSE LET shorter == SeqsUpTo(S, n - 1)
         IN  shorter \cup {Append(q, x) : q \in shorter, x \in S}

UrlChars == {Quote, LessThan, InvalidByte}
BodyBytes == {77, 255}
HeaderValues == {<<"text/", Backslash, Quote>>, <<InvalidByte>>}

MessageHeaders ==
    {NilHeaders, [nil |-> FALSE, kv |-> <<>>]}
        \cup {[nil |-> FALSE, kv |-> [h \in {"Content-Type"} |-> v]] : v \in HeaderValues}

MessageBodies ==
    {NilBody} \cup {[nil |-> FALSE, bytes |-> b] : b \in SeqsUpTo(BodyBytes, MaxBodyLen)}

Messages ==
    {TunnelMessage(<<"http_response">>, <<"r1">>, method, url, headers, body, status,
                   error, timestamp) :
        method \in {<<>>, <<"GET">>}, url \in SeqsUpTo(UrlChars, MaxStringLen),
        headers \in MessageHeaders, body \in MessageBodies, status \in {0, 502},
        error \in {<<>>, <<"Failed to read response: ", Quote, "EOF", Quote>>},
        timestamp \in {0, 1700000000}}

codecFrame == UNCHANGED <<tunnelVars, sweep, reconnectQueue, lastProbe, hmq, disc, wr,
                          nm, timed, am, lk>>

\* a TunnelMessage is built
NewMessage ==
    /\ codec.pc = "idle"
    /\ \E m \in Messages : codec' = [pc |-> "built", msg |-> m]
    /\ codecFrame

\* sendMessage: json.Marshal, then the write
MarshalMessage ==
    /\ codec.pc = "built"
    /\ codec' = [pc |-> "sent", msg |-> codec.msg, wire |-> Marshal(codec.msg)]
    /\ codecFrame

\* HandleTunnelMessage of the peer: json.Unmarshal
UnmarshalMessage ==
    /\ codec.pc = "sent"
    /\ codec' = [pc |-> "decoded", msg |-> codec.msg, wire |-> codec.wire,
                 out |-> Unmarshal(codec.wire)]
    /\ codecFrame

CodecNext == NewMessage \/ MarshalMessage \/ UnmarshalMessage

CodecSpec == Init /\ [][CodecNext]_vars

StringsOf(m) ==
    {m.Type, m.ID, m.Method, m.URL, m.Error}
        \cup {m.Headers.kv[h] : h \in DOMAIN m.Headers.kv}

\* every string of m is valid UTF-8
WellFormed(m) == \A str \in StringsOf(m) : \A i \in DOMAIN str : str[i] # InvalidByte

\* equal field by field, a nil map or slice taken as an empty one
SameMessage(a, b) ==
    /\ a.Type = b.Type /\ a.ID = b.ID /\ a.Method = b.Method /\ a.URL = b.URL
    /\ a.Headers.kv = b.Headers.kv /\ a.Body.bytes = b.Body.bytes
    /\ a.Status = b.Status /\ a.Error = b.Error /\ a.Timestamp = b.Timestamp

\* C24: json.Marshal followed by json.Unmarshal gives back an equal message for
\* every well-formed TunnelMessage (all its strings valid UTF-8): type, id,
\* method, url, headers, the bytes of the body, status, error and timestamp are
\* the same, and a field that was omitted is read back as its zero value.
C24_EncodeDecodeIdentity ==
    (codec.pc = "decoded" /\ WellFormed(codec.msg)) =>
        /\ codec.out.ok
        /\ SameMessage(codec.out.msg, codec.msg)
        /\ "headers" \notin codec.wire.keys => codec.out.msg.Headers = NilHeaders
        /\ "body" \notin codec.wire.keys => codec.out.msg.Body = NilBody

\* a message with characters that need escapes, a body whose base64 form is
\* padded and omitted fields has made the round trip
C24_Witness ==
    /\ codec.pc = "decoded" /\ WellFormed(codec.msg) /\ codec.out.ok
    /\ \E i \in DOMAIN codec.msg.URL : codec.msg.URL[i] \in {Quote, LessThan}
    /\ Len(codec.msg.Body.bytes) = 2 /\ codec.out.msg.Body.bytes = codec.msg.Body.bytes
    /\ DOMAIN codec.msg.Headers.kv # {}
    /\ codec.msg.Status = 0 /\ "status" \notin codec.wire.keys
    /\ codec.msg.Timestamp > 0

\* ---- the writers of one edge connection ---------------------------------------
wrFrame == UNCHANGED <<tunnelVars, sweep, reconnectQueue, lastProbe, hmq, disc, codec,
                       nm, timed, am, lk>>

MayLockAlways(w) == TRUE

\* atp.writeMutex.Lock() returns when no one holds the mutex
MayLock(w) == wr.writeMutex = ""

\* sendMessage: atp.writeMutex.Lock()
WriterLock(w) ==
    /\ w \in MessageWriters
    /\ wr.pc[w] = "idle"
    /\ Len(wr.wire) < 2 * MaxFrames
    /\ MayLock(w)
    /\ wr' = [wr EXCEPT !.pc[w] = "locked", !.writeMutex = w]
    /\ wrFrame

\* WriteMessage puts the message into the write buffer of the connection
WriterBuffer(w) ==
    /\ wr.pc[w] = "locked"
    /\ wr' = [wr EXCEPT !.pc[w] = "buffered", !.writeBuf = w]
    /\ wrFrame

\* what goes to the socket: the buffer of the connection for WriteMessage, the
\* writer's own frame for WriteControl
FrameOf(w) == IF w \in MessageWriters THEN wr.writeBuf ELSE w

\* the frame write starts: the connection's write lock is taken, the first
\* bytes go out
WriteBegin(w) ==
    /\ wr.pc[w] = (IF w \in MessageWriters THEN "buffered" ELSE "idle")
    /\ w \in ControlWriters => Len(wr.wire) < 2 * MaxFrames
    /\ wr.mu = ""
    /\ wr' = [wr EXCEPT !.pc[w] = "writing", !.mu = w,
                        !.wire = Append(@, [by |-> w, frame |-> FrameOf(w),
                                            part |-> "head"])]
    /\ wrFrame

\* the rest of the frame goes out, the locks are released
WriteEnd(w) ==
    /\ wr.pc[w] = "writing"
    /\ wr' = [wr EXCEPT !.pc[w] = "idle", !.mu = "",
                        !.writeMutex = IF w \in MessageWriters THEN "" ELSE @,
                        !.wire = Append(@, [by |-> w, frame |-> wr.wire[Len(wr.wire)].frame,
                                            part |-> "tail"])]
    /\ wrFrame

WriteNext ==
    \/ \E w \in Writers : WriterLock(w)
    \/ \E w \in Writers : WriterBuffer(w)
    \/ \E w \in Writers : WriteBegin(w)
    \/ \E w \in Writers : WriteEnd(w)

WriteSpec == Init /\ [][WriteNext]_vars

\* the writers that are inside the write of a frame
InWrite == {w \in Writers : wr.pc[w] = "writing"}

\* C25: frame writes on one transport are serialized: at most one writer (a
\* response task, a WebSocket forwarder, a pong reply, the heartbeat, the close
\* frame of disconnect or of terminate) is inside the write of a frame, at most
\* one is inside sendMessage, and on the wire every frame is whole (its head is
\* followed by its own tail) and is the frame its writer meant to send.
C25_WritesSerialized ==
    /\ Cardinality(InWrite) <= 1
    /\ Cardinality({w \in MessageWriters : wr.pc[w] # "idle"}) <= 1
    /\ \A i \in DOMAIN wr.wire :
         /\ wr.wire[i].frame = wr.wire[i].by
         /\ wr.wire[i].part = (IF i % 2 = 1 THEN "head" ELSE "tail")
         /\ i % 2 = 0 => wr.wire[i].by = wr.wire[i - 1].by

\* a response waits in sendMessage with its message buffered while the
\* heartbeat is inside its ping, after a whole frame of the forwarder
C25_Witness ==
    /\ wr.pc["response"] = "buffered" /\ wr.pc["heartbeat"] = "writing"
    /\ Len(wr.wire) = 3 /\ wr.wire[1].by = "forwarder" /\ wr.wire[2].by = "forwarder"

\* ---- a failed heartbeat ping ---------------------------------------------------
\* the sessions of two tunnels, each connected by one call.
\* a goroutine of the agent that can take its step takes it; the reader's
\* ReadMessage on a broken connection returns, at the latest at its read
\* deadline; what the edge, the origin and the user do may never come
HbNext ==
    \/ SessionNext({FALSE})
    \/ CallStart(2, "t2", FALSE)
    \/ CallDial(2)
    \/ CallWake(2)

HbFairSpec ==
    /\ Init
    /\ [][HbNext]_vars
    /\ \A k \in TwoCallers :
         /\ WF_vars(CallDial(k))
         /\ WF_vars(CallWake(k))
    /\ \A c \in ConnIds :
         /\ WF_vars(HandlerStart(c))
         /\ WF_vars(ReadError(c))
         /\ WF_vars(HandlerDelete(c))
         /\ WF_vars(HandlerClose(c))
         /\ WF_vars(HeartbeatStop(c))
         /\ WF_vars(HeartbeatFail(c))

\* the heartbeat of c has ended on a failed ping
HeartbeatFailed(c) ==
    /\ hb[c] = "none"
    /\ conns[c].status = "error"
    /\ conns[c].cancelled

\* the reader of c has returned, its transport is closed and c is not registered
TornDown(c) ==
    /\ handler[c] = "exited"
    /\ conns[c].sock = "closed"
    /\ \A t \in Tunnels : activeTunnels[t] # c

nmFrame == UNCHANGED <<tunnelVars, sweep, reconnectQueue, lastProbe, hmq, disc, codec,
                       wr, timed, am, lk>>

\* the monitor after Start(): unchanged when already monitoring; else the pair
\* of the moment is remembered and a monitorLoop is started, whether or not
\* Stop() has run
NetworkStarted(n, cur) ==
    IF n.monitoring THEN n
    ELSE [n EXCEPT !.monitoring = TRUE, !.lastIP = cur.ip,
                   !.lastInterface = cur.iface, !.starts = @ + 1]

\* Start() on a monitor that is not monitoring
NetworkMonitorStart(cur) ==
    /\ nm.panic = ""
    /\ ~nm.monitoring
    /\ nm.starts < MaxStarts
    /\ nm' = NetworkStarted(nm, cur)
    /\ nmFrame

\* close(nm.changeChan) in Stop(): closing a closed channel panics
CloseChangeChan(n) ==
    IF n.stopped THEN [n EXCEPT !.panic = "close of closed channel"]
    ELSE [n EXCEPT !.stopped = TRUE]

\* the monitor after Stop(): unchanged when not monitoring; else the context
\* is cancelled and the channel closed. late: a monitorLoop of a context not
\* yet cancelled is waiting for nm.mu in checkNetworkChanges at this moment
NetworkStopped(n, late) ==
    IF ~n.monitoring THEN n
    ELSE CloseChangeChan([n EXCEPT !.monitoring = FALSE, !.late = @ \/ late])

\* Stop() on a monitor that is monitoring
NetworkMonitorStop(late) ==
    /\ nm.panic = ""
    /\ nm.monitoring
    /\ late => ~nm.stopped
    /\ nm' = NetworkStopped(nm, late)
    /\ nmFrame

NetworkChange(type, old, new) == [type |-> type, old |-> old, new |-> new]

\* the events of a check that compared without looking whether it had
\* remembered anything
ChangesOfAnyLast(lastIP, lastInterface, cur) ==
    (IF lastIP # cur.ip
     THEN <<NetworkChange("ip_change", lastIP, cur.ip)>> ELSE <<>>)
    \o (IF lastInterface # cur.iface
        THEN <<NetworkChange("interface_change", lastInterface, cur.iface)>> ELSE <<>>)

\* the events one check makes of the remembered pair and the pair it finds
ChangesOf(lastIP, lastInterface, cur) ==
    (IF lastIP # "" /\ lastIP # cur.ip
     THEN <<NetworkChange("ip_change", lastIP, cur.ip)>> ELSE <<>>)
    \o (IF lastInterface # "" /\ lastInterface # cur.iface
        THEN <<NetworkChange("interface_change", lastInterface, cur.iface)>> ELSE <<>>)

\* select { case nm.changeChan <- change: default: }: the events that fit are
\* sent in order, the others are dropped
RECURSIVE SendAll(_, _)
SendAll(ch, events) ==
    IF events = <<>> THEN ch
    ELSE SendAll(IF Len(ch) < changeChanCap THEN Append(ch, Head(events)) ELSE ch,
                 Tail(events))

RECURSIVE DroppedOf(_, _)
DroppedOf(ch, events) ==
    IF events = <<>> THEN <<>>
    ELSE IF Len(ch) < changeChanCap THEN DroppedOf(Append(ch, Head(events)), Tail(events))
         ELSE <<Head(events)>> \o DroppedOf(ch, Tail(events))

\* one tick of monitorLoop: checkNetworkChanges() finds the pair cur. A loop
\* ticks while its context is not cancelled, and once more when it was
\* already waiting for nm.mu; a send on the closed channel panics
checkNetworkChanges(cur) ==
    /\ nm.panic = ""
    /\ nm.monitoring
    /\ ~nm.stopped \/ nm.late
    /\ nm.ticks < MaxTicks
    /\ LET events == ChangesOf(nm.lastIP, nm.lastInterface, cur)
       IN nm' = IF nm.stopped /\ events # <<>>
                THEN [nm EXCEPT !.panic = "send on closed channel", !.late = FALSE]
                ELSE [nm EXCEPT
                         !.changeChan = SendAll(@, events),
                         !.lastIP = cur.ip,
                         !.lastInterface = cur.iface,
                         !.ticks = @ + 1,
                         !.late = FALSE,
                         !.tick = [ran |-> TRUE,
                                   old |-> [ip |-> nm.lastIP, iface |-> nm.lastInterface],
                                   cur |-> cur,
                                   events |-> events,
                                   dropped |-> DroppedOf(nm.changeChan, events)]]
    /\ nmFrame

\* the tick of a monitorLoop that was waiting for nm.mu when Stop() ran and
\* finds the monitor not monitoring: checkNetworkChanges() returns at once
LateTickReturns ==
    /\ nm.panic = ""
    /\ nm.late
    /\ ~nm.monitoring
    /\ nm' = [nm EXCEPT !.late = FALSE, !.ticks = @ + 1]
    /\ nm.ticks < MaxTicks
    /\ nmFrame

\* handleNetworkChanges: `for change := range changeChan` takes the next event
handleNetworkChanges ==
    /\ nm.panic = ""
    /\ nm.changeChan # <<>>
    /\ nm' = [nm EXCEPT !.changeChan = Tail(@)]
    /\ nmFrame

NetworkNext ==
    \/ \E cur \in NetStates : NetworkMonitorStart(cur)
    \/ \E late \in BOOLEAN : NetworkMonitorStop(late)
    \/ \E cur \in NetStates : checkNetworkChanges(cur)
    \/ LateTickReturns
    \/ handleNetworkChanges

NetworkSpec == Init /\ [][NetworkNext]_vars

\* C28: a check that finds the primary (interface name, IPv4 address) pair
\* changed from the pair it remembered makes exactly one event (ip_change or
\* interface_change), also when address and interface name both changed; a
\* check that finds the pair unchanged makes none.
C28_OneEventPerChange ==
    (nm.tick.ran /\ nm.tick.old.ip # "") =>
        Len(nm.tick.events) = (IF nm.tick.old # nm.tick.cur THEN 1 ELSE 0)

\* C29: the change channel never holds more than 10 events, and a check that
\* drops the event of a change leaves the change to be detected by a later
\* check: it does not remember the pair whose event it dropped.
C29_DroppedChangeRedetected ==
    /\ Len(nm.changeChan) <= changeChanCap
    /\ nm.tick.dropped # <<>> =>
         [ip |-> nm.lastIP, iface |-> nm.lastInterface] # nm.tick.cur

\* ---- forwarding from the local WebSocket ---------------------------------------
\* the websocket_data frame for the n-th message of the local socket, of kind mt
ForwardedAs(x, mt, n) ==
    [type |-> "websocket_data", id |-> x, status |-> 0, error |-> "",
     mt |-> (IF mt = TextMessage THEN "1" ELSE "2"), body |-> n]

\* the websocket_data frames x has written, in order
DataFramesOf(x) == SelectSeq(tasks[x].wrote, LAMBDA f : f.type = "websocket_data")

\* C30: for an established upgrade with id X, every step of the forwarder
\* either writes one websocket_data frame with id X for the message it read,
\* with the message's kind (text or binary) in headers.message_type, and goes
\* on, or ends the forwarding with the local socket closed and nothing written
\* (the local socket was closed or the transport write failed); the frames
\* written are those of the messages read, in the order they were read.
C30_ForwardsInOrder ==
    /\ [][ \A x \in ReqIds :
             (tasks[x].pc = "forward" /\ tasks'[x] # tasks[x]) =>
                 \/ /\ Writable(tasks[x].conn)
                    /\ tasks'[x].pc = "forward"
                    /\ \E mt \in MessageTypes :
                         tasks'[x].wrote =
                            Append(tasks[x].wrote,
                                   ForwardedAs(x, mt, Len(DataFramesOf(x)) + 1))
                 \/ /\ tasks'[x].pc = "done"
                    /\ tasks'[x].local = "closed"
                    /\ tasks'[x].wrote = tasks[x].wrote
         ]_vars
    /\ [](\A x \in ReqIds :
             \A i \in DOMAIN DataFramesOf(x) :
                 /\ DataFramesOf(x)[i].id = x
                 /\ DataFramesOf(x)[i].body = i
                 /\ DataFramesOf(x)[i].mt \in {"1", "2"})

\* a text message and then a binary message of the local socket were forwarded,
\* then the local socket was closed
C30_Witness ==
    \E x \in ReqIds :
        /\ IsUpgrade(x) /\ tasks[x].pc = "done" /\ tasks[x].local = "closed"
        /\ Len(DataFramesOf(x)) = 2
        /\ DataFramesOf(x)[1].mt = "1" /\ DataFramesOf(x)[2].mt = "2"
        /\ Writable(tasks[x].conn)

\* ---- one session with its clock ------------------------------------------------
timedFrame == UNCHANGED <<tunnelVars, sweep, reconnectQueue, lastProbe, hmq, disc, codec,
                          wr, nm, am, lk>>

\* ReadMessage returns a frame of the edge: the read deadline is set anew
TimedRead ==
    /\ timed.reader = "read"
    /\ timed.peer = "live"
    /\ timed.now < timed.deadline
    /\ timed' = [timed EXCEPT !.deadline = timed.now + readTimeout, !.last = timed.now]
    /\ timedFrame

\* the ticker of sendHeartbeat fires: a ping is written; a live peer answers it
TimedPing ==
    /\ timed.hb = "run"
    /\ ~timed.cancelled
    /\ timed.now = timed.nextPing
    /\ timed' = [timed EXCEPT !.nextPing = timed.now + pingPeriod,
                              !.pong = (timed.peer = "live")]
    /\ timedFrame

\* the pong handler, called in the reader's ReadMessage
TimedPong ==
    /\ timed.pong
    /\ timed.reader = "read"
    /\ timed.now < timed.deadline
    /\ timed' = [timed EXCEPT !.pong = FALSE, !.deadline = timed.now + readTimeout,
                              !.last = timed.now]
    /\ timedFrame

\* from now on the edge sends no frame and no pong
PeerSilent ==
    /\ timed.peer = "live"
    /\ timed' = [timed EXCEPT !.peer = "silent", !.pong = FALSE]
    /\ timedFrame

\* ReadMessage fails at the read deadline: Status = "error", return, and the
\* deferred cleanup calls Cancel() and waits for tm.mutex
TimedReadTimeout ==
    /\ timed.reader = "read"
    /\ timed.now >= timed.deadline
    /\ timed' = [timed EXCEPT !.reader = "delete", !.cancelled = TRUE]
    /\ timedFrame

\* sendHeartbeat sees the cancelled context
TimedHeartbeatStop ==
    /\ timed.hb = "run"
    /\ timed.cancelled
    /\ timed' = [timed EXCEPT !.hb = "none"]
    /\ timedFrame

\* ConnectTunnel of another tunnel: tm.mutex is held until the dial returns,
\* after d seconds, at the latest at the dial timeout
OtherConnectDial(d) ==
    /\ timed.lockedUntil = 0
    /\ timed.dials < MaxOtherDials
    /\ timed.now + d <= MaxTime
    /\ timed' = [timed EXCEPT !.lockedUntil = timed.now + d, !.dials = @ + 1]
    /\ timedFrame

OtherConnectReturn ==
    /\ timed.lockedUntil # 0
    /\ timed.now = timed.lockedUntil
    /\ timed' = [timed EXCEPT !.lockedUntil = 0]
    /\ timedFrame

\* the deferred cleanup: tm.mutex.Lock(), delete, Unlock
TimedDelete ==
    /\ timed.reader = "delete"
    /\ timed.lockedUntil = 0
    /\ timed' = [timed EXCEPT !.reader = "close", !.registered = FALSE]
    /\ timedFrame

\* the deferred cleanup: Connection.Close()
TimedClose ==
    /\ timed.reader = "close"
    /\ timed' = [timed EXCEPT !.reader = "exited", !.sock = "closed",
                              !.tornAt = timed.now]
    /\ timedFrame

\* a step of a goroutine that is due now: time does not pass before it
Urgent ==
    \/ timed.reader = "read" /\ timed.now >= timed.deadline
    \/ timed.hb = "run" /\ (timed.cancelled \/ timed.now >= timed.nextPing)
    \/ timed.reader = "delete" /\ timed.lockedUntil = 0
    \/ timed.reader = "close"
    \/ timed.lockedUntil # 0 /\ timed.now >= timed.lockedUntil

TimePasses ==
    /\ ~Urgent
    /\ timed.now + TimeStep <= MaxTime
    /\ timed' = [timed EXCEPT !.now = @ + TimeStep]
    /\ timedFrame

DialTimes == {d \in 1..dialTimeout : d % TimeStep = 0}

TimedNext ==
    \/ TimedRead
    \/ TimedPing
    \/ TimedPong
    \/ PeerSilent
    \/ TimedReadTimeout
    \/ TimedHeartbeatStop
    \/ \E d \in DialTimes : OtherConnectDial(d)
    \/ OtherConnectReturn
    \/ TimedDelete
    \/ TimedClose
    \/ TimePasses

TimedSpec == Init /\ [][TimedNext]_vars

\* C27: with time in seconds, the read deadline is 60 s after the last
\* successful read or pong, the next ping is at most 15 s away, and a session
\* whose peer has sent nothing since then is torn down (reader returned, tunnel
\* out of the registry, transport closed) no earlier than 60 s and no later
\* than 75 s after that last read or pong.
C27_TeardownWindow ==
    /\ timed.reader = "read" => timed.deadline = timed.last + readTimeout
    /\ timed.hb = "run" => timed.nextPing <= timed.now + pingPeriod
    /\ (timed.reader = "exited" /\ timed.peer = "silent") =>
         /\ ~timed.registered /\ timed.sock = "closed"
         /\ timed.tornAt >= timed.last + readTimeout
         /\ timed.tornAt <= timed.last + readTimeout + pingPeriod

\* ---- HandleTunnelMessage: the frames of the control plane ----------------------
\* what the reader hands to HandleTunnelMessage besides requests: the known
\* types ping, pong and connected, a type the switch does not know, and bytes
\* json.Unmarshal rejects
ControlTypes == {"ping", "pong", "connected", "unknown", "undecodable"}

PongFrameNoId(id) == Frame("pong", 0, 0, "", "", 0)

\* the pong of handlePing
PongFrame(id) == Frame("pong", id, 0, "", "", 0)

\* HandleTunnelMessage returns an error for bytes it cannot decode and for a
\* pong that could not be written
ControlFails(x) ==
    \/ tasks[x].type = "undecodable"
    \/ tasks[x].type = "ping" /\ ~Writable(tasks[x].conn)

\* the goroutine of one control frame: Unmarshal, the switch, handlePing
HandleControl(x) ==
    /\ tasks[x].type \in ControlTypes
    /\ tasks[x].pc = "new"
    /\ LET c == tasks[x].conn
       IN  conns' = [conns EXCEPT ![c] = AfterHandle(@, ControlFails(x))]
    /\ tasks' = [tasks EXCEPT ![x] =
                   [@ EXCEPT !.pc = "done",
                             !.wrote = IF tasks[x].type = "ping"
                                       THEN SendMessage(tasks[x], PongFrame(x))
                                       ELSE @]]
    /\ UNCHANGED <<activeTunnels, numConns, handler, hb, call, mon, fails, life,
                   numReqs>>
    /\ UNCHANGED svcVars

ControlNext ==
    \/ SessionNext({FALSE})
    \/ \E c \in ConnIds, type \in ControlTypes : ReadRequest(c, type)
    \/ \E x \in ReqIds : HandleControl(x)

ControlSpec == Init /\ [][ControlNext]_vars

IsControl(x) == tasks[x].type \in ControlTypes

\* C31: a ping with id X handled on a writable transport causes exactly one
\* pong with id X and never more than one; a pong, a connected frame, a frame
\* of unknown type and a frame that does not decode cause no outbound frame;
\* and the handling of none of them closes the transport, cancels the session,
\* stops its reader or removes it from the registry.
C31_ControlDispatch ==
    /\ [](\A x \in ReqIds :
            IsControl(x) =>
               /\ Len(tasks[x].wrote) <= 1
               /\ \A i \in DOMAIN tasks[x].wrote :
                    /\ tasks[x].type = "ping"
                    /\ tasks[x].wrote[i] =
                          [type |-> "pong", id |-> x, status |-> 0, error |-> "",
                           mt |-> "", body |-> 0]
               /\ (tasks[x].type = "ping" /\ HandledWritable(x)) =>
                      Len(tasks[x].wrote) = 1)
    /\ [][ \A x \in ReqIds :
             (IsControl(x) /\ tasks'[x] # tasks[x]) =>
                 /\ \A c \in ConnIds : SessionOf(c)' = SessionOf(c)
                 /\ activeTunnels' = activeTunnels
         ]_vars

\* on one registered, writable session a frame that does not decode was
\* handled and after it a ping was answered
C31_Witness ==
    \E x \in ReqIds, y \in ReqIds :
        /\ x < y /\ tasks[x].conn = tasks[y].conn
        /\ tasks[x].type = "undecodable" /\ tasks[x].pc = "done"
        /\ tasks[y].type = "ping" /\ HandledWritable(y) /\ Len(tasks[y].wrote) = 1
        /\ activeTunnels[conns[tasks[y].conn].tunnel] = tasks[y].conn
        /\ handler[tasks[y].conn] = "read"

\* ---- a failed transport of a tunnel connected without auto-reconnect -----------
\* a session of t has ended on a transport error and its cleanup has taken t
\* out of the registry
TransportFailed(t) ==
    \E c \in ConnIds :
        /\ conns[c].tunnel = t
        /\ conns[c].status = "error"
        /\ handler[c] \in {"close", "exited"}

\* C32: a tunnel connected without auto-reconnect whose transport has failed
\* and whose session is removed stays down: it gets a new session only by a
\* step of an explicit connect call, never by the tunnel manager, the
\* reconnect queue of the health monitor or the background maintenance.
C32_FailedEphemeralStaysDown ==
    [][ \A t \in Tunnels :
          (/\ life[t] = "ephemeral"
           /\ TransportFailed(t)
           /\ ~IsConnected(t)
           /\ IsConnected(t)')
          => call' # call
      ]_vars

\* ---- AuthManager ---------------------------------------------------------------
amFrame == UNCHANGED <<tunnelVars, sweep, reconnectQueue, lastProbe, hmq, disc, codec,
                       wr, nm, timed, lk>>

\* the tokens a keyring can hold: one the server accepts, one past its
\* expiry claim
Tokens == {"valid", "expired"}

\* ValidateToken: the POST to /auth/agent-auth
ValidateToken(token, reachable) ==
    IF ~reachable THEN "network_error"
    ELSE IF token = "valid" THEN "ok" ELSE "rejected"

\* how LoadCredentials ends
LoadCredentials(creds, reachable) ==
    IF ~creds.userData THEN "no_user_data"
    ELSE IF creds.token = "" THEN "no_token"
    ELSE IF creds.token = "expired" THEN "expired"
    ELSE ValidateToken(creds.token, reachable)

\* what is stored after LoadCredentials: ClearCredentials() on an expired token
\* and on every error of ValidateToken
AfterLoadCredentials(creds, reachable) ==
    IF LoadCredentials(creds, reachable) \in {"expired", "network_error", "rejected"}
    THEN NoCredentials
    ELSE creds

IsAuthenticated(creds, reachable) == LoadCredentials(creds, reachable) = "ok"

\* LoginWithToken(token): ValidateToken, then SaveCredentials
LoginWithToken(token) ==
    /\ am.creds = NoCredentials
    /\ ValidateToken(token, am.reachable) = "ok"
    /\ am' = [am EXCEPT !.creds = [token |-> token, userData |-> TRUE]]
    /\ amFrame

\* the server stops or starts to answer
ServerChange ==
    /\ am' = [am EXCEPT !.reachable = ~@]
    /\ amFrame

\* ---- ConfigManager -------------------------------------------------------------
SetTunnelAutoStart(config, t, autoStart) == [config EXCEPT ![t].AutoStart = autoStart]

SetTunnelActive(config, t, isActive) == [config EXCEPT ![t].IsActive = isActive]

GetAutoStartTunnels(config) == {t \in Tunnels : config[t].AutoStart}

\* the user marks or unmarks a tunnel for auto-start
UserSetsAutoStart(t, autoStart) ==
    /\ am.config[t].AutoStart # autoStart
    /\ am' = [am EXCEPT !.config = SetTunnelAutoStart(@, t, autoStart)]
    /\ amFrame

\* ---- Manager.performBackgroundMaintenance --------------------------------------
\* the ticker of runBackgroundTasks fires
MaintStart ==
    /\ am.pass.pc \in {"idle", "done"}
    /\ am.pass.passes < MaxPasses
    /\ am' = [am EXCEPT !.pass = [NoPass EXCEPT !.pc = "sync", !.passes = am.pass.passes + 1]]
    /\ amFrame

\* FetchTunnels: the tunnels the server lists, each with the server's
\* is_active and AutoStart false
FetchTunnels(listed, active) ==
    [t \in listed |-> [IsActive |-> t \in active, AutoStart |-> FALSE]]

\* updateLocalTunnelsFromServer: every listed tunnel replaces the local entry
updateLocalTunnelsFromServer(config, serverTunnels) ==
    [t \in Tunnels |-> IF t \in DOMAIN serverTunnels THEN serverTunnels[t] ELSE config[t]]

\* SyncTunnelsFromServer; fetched: FetchTunnels got its answer
SyncTunnelsFromServer(fetched, listed, active) ==
    [am EXCEPT !.creds = AfterLoadCredentials(am.creds, am.reachable),
               !.config = IF IsAuthenticated(am.creds, am.reachable) /\ fetched
                          THEN updateLocalTunnelsFromServer(@, FetchTunnels(listed, active))
                          ELSE @]

\* step 1 of the pass
MaintSync ==
    /\ am.pass.pc = "sync"
    /\ \E fetched \in BOOLEAN, listed \in {{}, Tunnels}, active \in {{}, Tunnels} :
         am' = [SyncTunnelsFromServer(fetched, listed, active) EXCEPT !.pass.pc = "health"]
    /\ amFrame

\* the config after the loop of healthCheckAndReconnect over the tunnels `due`:
\* the connect is commented out, the tunnel is set active
RECURSIVE MarkReconnected(_, _)
MarkReconnected(config, due) ==
    IF due = {} THEN config
    ELSE LET t == CHOOSE u \in due : TRUE
         IN  MarkReconnected(SetTunnelActive(config, t, TRUE), due \ {t})

\* step 2 of the pass: healthCheckAndReconnect
MaintHealth ==
    /\ am.pass.pc = "health"
    /\ LET auth == IsAuthenticated(am.creds, am.reachable)
           due == IF auth
                  THEN {t \in GetAutoStartTunnels(am.config) : ~IsConnected(t)}
                  ELSE {}
       IN  am' = [am EXCEPT !.creds = AfterLoadCredentials(am.creds, am.reachable),
                            !.config = MarkReconnected(@, due),
                            !.pass = [@ EXCEPT !.pc = "status", !.due = due]]
    /\ amFrame

\* step 3 of the pass: updateTunnelStatus
updateTunnelStatus(config) ==
    [t \in Tunnels |-> [config[t] EXCEPT !.IsActive = IsConnected(t)]]

MaintStatus ==
    /\ am.pass.pc = "status"
    /\ am' = [am EXCEPT !.config = updateTunnelStatus(@), !.pass.pc = "done"]
    /\ amFrame

\* ---- Manager.ConnectTunnel -------------------------------------------------------
\* Manager.ConnectTunnel(t, setAutoStart) up to its call of
\* ConnectTunnelWithRetry: it returns an error when IsAuthenticated() is false
\* or the tunnel is connected
ManagerConnectTunnel(k, t, setAutoStart) ==
    /\ call[k].pc = "idle"
    /\ \A j \in Calls : j < k => call[j].pc # "idle"
    /\ LET go == IsAuthenticated(am.creds, am.reachable) /\ ~IsConnected(t)
       IN  /\ am' = [am EXCEPT !.creds = AfterLoadCredentials(am.creds, am.reachable),
                               !.mgr = IF go THEN @ \cup {k} ELSE @]
           /\ call' = IF go
                      THEN [call EXCEPT ![k] = [IdleCall EXCEPT !.pc = "dial",
                                                               !.tunnel = t,
                                                               !.auto = setAutoStart]]
                      ELSE call
    /\ UNCHANGED <<activeTunnels, conns, numConns, handler, hb, mon, fails, life>>
    /\ UNCHANGED protoVars
    /\ UNCHANGED <<sweep, reconnectQueue, lastProbe, hmq, disc, codec, wr, nm, timed, lk>>

\* Manager.ConnectTunnel after ConnectTunnelWithRetry returned: on success the
\* tunnel is set active, and auto-start when setAutoStart
ManagerConnectReturns(k) ==
    /\ k \in am.mgr
    /\ call[k].pc \in {"ret_ok", "ret_err"}
    /\ LET t == call[k].tunnel
           active == SetTunnelActive(am.config, t, TRUE)
       IN  am' = [am EXCEPT !.mgr = @ \ {k},
                           !.config = IF call[k].pc = "ret_err" THEN @
                                      ELSE IF call[k].auto
                                           THEN SetTunnelAutoStart(active, t, TRUE)
                                           ELSE active]
    /\ amFrame

MaintNext ==
    \/ SessionNext(BOOLEAN)
    \/ \E k \in Calls, t \in Tunnels, b \in BOOLEAN : ManagerConnectTunnel(k, t, b)
    \/ \E k \in Calls : ManagerConnectReturns(k)
    \/ \E token \in Tokens : LoginWithToken(token)
    \/ ServerChange
    \/ \E t \in Tunnels, b \in BOOLEAN : UserSetsAutoStart(t, b)
    \/ MaintStart
    \/ MaintSync
    \/ MaintHealth
    \/ MaintStatus

MaintSpec == Init /\ [][MaintNext]_vars

\* C33: at the end of a maintenance pass every auto-start tunnel the pass found
\* not connected has been re-dialed, and is_active equals IsConnected for every
\* configured tunnel.
C33_PassRedialsAndMarks ==
    [][ (am.pass.pc = "status" /\ am'.pass.pc = "done") =>
            /\ am'.pass.due \subseteq am'.pass.dialed
            /\ \A t \in Tunnels : am'.config[t].IsActive = IsConnected(t)'
      ]_vars

\* ---- the cleanup of a handler and the session that replaced its own ------------
\* C34: the cleanup of a connection handler removes only its own session: every
\* open transport whose reader runs is the registered session of its tunnel,
\* and no cleanup step takes the entry of another connection out of the
\* registry.
C34_CleanupRemovesOwnSession ==
    /\ [](\A c \in ConnIds :
            (conns[c].sock = "open" /\ handler[c] = "read") =>
                activeTunnels[conns[c].tunnel] = c)
    /\ [][ \A c \in ConnIds :
             (handler[c] = "delete" /\ handler'[c] = "close") =>
                 \A t \in Tunnels :
                     (activeTunnels[t] # c) => activeTunnels'[t] = activeTunnels[t]
         ]_vars

\* C35: in every interleaving of NetworkMonitor.Start, Stop and the ticks of
\* monitorLoop the change channel is closed at most once and nothing is sent
\* on it after it was closed: no step ends in the panic of a second close or
\* of a send on the closed channel.
C35_ChannelClosedOnce == nm.panic = ""

\* C40: Start() sends nothing on the change channel, and a check that had
\* remembered an empty address or an empty interface name sends nothing
\* either, so the return of connectivity makes no event; a check that had
\* remembered an address and finds none makes an event, which is on the
\* channel afterwards when the channel had room.
C40_NoEventFromEmpty ==
    [][ /\ nm'.starts = nm.starts + 1 => nm'.changeChan = nm.changeChan
        /\ (nm'.ticks = nm.ticks + 1 /\ nm'.monitoring) =>
              /\ (nm.lastIP = "" \/ nm.lastInterface = "") =>
                    /\ nm'.tick.events = <<>>
                    /\ nm'.changeChan = nm.changeChan
              /\ (nm.lastIP # "" /\ nm'.lastIP = "") =>
                    /\ nm'.tick.events # <<>>
                    /\ Len(nm.changeChan) < changeChanCap =>
                          /\ Len(nm'.changeChan) > Len(nm.changeChan)
                          /\ nm'.changeChan[Len(nm.changeChan) + 1] =
                                Head(nm'.tick.events)
      ]_vars

\* connectivity came back after a loss whose event is still on the channel:
\* the check of the return made no event
C40_Witness ==
    /\ nm.tick.ran
    /\ nm.tick.old = NoNetwork
    /\ nm.tick.cur # NoNetwork
    /\ nm.tick.events = <<>>
    /\ nm.changeChan # <<>>
    /\ nm.changeChan[Len(nm.changeChan)].new = ""

C38_SyncKeepsAutoStart ==
    [][ (am.pass.pc = "sync" /\ am'.pass.pc = "health") =>
            GetAutoStartTunnels(am'.config) = GetAutoStartTunnels(am.config) ]_vars

\* ---- Manager.StartSilently, runBackgroundTasks, StopSilently ----------------------
\* what the steps of the background goroutine leave alone
bgFrame == UNCHANGED <<sweep, reconnectQueue, lastProbe, hmq, disc, codec, wr, nm, timed, lk>>

\* StartSilently(): returns when running; else starts the monitors and the
\* goroutine of runBackgroundTasks (one in a run)
StartSilently ==
    /\ ~am.isRunning
    /\ am.bg.pc = "none"
    /\ am' = [am EXCEPT !.isRunning = TRUE, !.bg.pc = "auth"]
    /\ \E cur \in NetStates : nm' = NetworkStarted(nm, cur)
    /\ UNCHANGED <<tunnelVars, sweep, reconnectQueue, lastProbe, hmq, disc, codec, wr,
                   timed, lk>>

\* autoConnectTunnels up to its loop: it returns when IsAuthenticated() is false
AutoConnectStart ==
    /\ am.bg.pc = "auth"
    /\ am' = [am EXCEPT
                !.creds = AfterLoadCredentials(am.creds, am.reachable),
                !.bg = IF IsAuthenticated(am.creds, am.reachable)
                       THEN [@ EXCEPT !.pc = "next",
                                      !.todo = GetAutoStartTunnels(am.config)]
                       ELSE [@ EXCEPT !.pc = "loop"]]
    /\ amFrame

\* one round of `for _, simpleTunnel := range autoStartTunnels`: a connected
\* tunnel is skipped, for another ConnectTunnelWithRetry(tunnel, token, true)
\* is called; after the last tunnel autoConnectTunnels returns
AutoConnectNext ==
    /\ am.bg.pc = "next"
    /\ IF am.bg.todo = {}
       THEN /\ am' = [am EXCEPT !.bg.pc = "loop"]
            /\ UNCHANGED call
       ELSE \E t \in am.bg.todo :
              IF IsConnected(t)
              THEN /\ am' = [am EXCEPT !.bg.todo = @ \ {t}]
                   /\ UNCHANGED call
              ELSE \E k \in Calls :
                     /\ call[k].pc = "idle"
                     /\ \A j \in Calls : j < k => call[j].pc # "idle"
                     /\ call' = [call EXCEPT ![k] = [IdleCall EXCEPT !.pc = "dial",
                                                                     !.tunnel = t,
                                                                     !.auto = TRUE]]
                     /\ am' = [am EXCEPT !.bg = [pc |-> "wait", todo |-> @.todo \ {t},
                                                 k |-> k, tunnel |-> t]]
    /\ UNCHANGED <<activeTunnels, conns, numConns, handler, hb, mon, fails, life>>
    /\ UNCHANGED protoVars
    /\ bgFrame

\* ConnectTunnelWithRetry has returned: on success the tunnel is set active
AutoConnectReturns ==
    /\ am.bg.pc = "wait"
    /\ call[am.bg.k].pc \in {"ret_ok", "ret_err"}
    /\ am' = [am EXCEPT !.bg.pc = "next",
                        !.config = IF call[am.bg.k].pc = "ret_ok"
                                   THEN SetTunnelActive(@, am.bg.tunnel, TRUE)
                                   ELSE @]
    /\ amFrame

\* the main loop takes a tick of its ticker: performBackgroundMaintenance
BackgroundTick == am.bg.pc = "loop" /\ MaintStart

\* the main loop takes ctx.Done(): runBackgroundTasks returns, and its deferred
\* function sets isRunning to false under am.mutex
BackgroundExit ==
    /\ am.bg.pc = "loop"
    /\ am.pass.pc \in {"idle", "done"}
    /\ am.cancelled
    /\ am.stopping = {}
    /\ am' = [am EXCEPT !.bg.pc = "exit", !.isRunning = FALSE]
    /\ amFrame

\* StopSilently() up to disconnectAllTunnels: returns when not running; else
\* stops the monitors, cancels the context and takes the list of the tunnels
\* to disconnect
StopSilently ==
    /\ am.isRunning
    /\ am.stopping = {}
    /\ am' = [am EXCEPT !.cancelled = TRUE, !.isRunning = FALSE,
                        !.stopping = GetActiveTunnels]
    /\ \E late \in BOOLEAN : (late => ~nm.stopped) /\ nm' = NetworkStopped(nm, late)
    /\ UNCHANGED <<tunnelVars, sweep, reconnectQueue, lastProbe, hmq, disc, codec, wr,
                   timed, lk>>

\* one round of disconnectAllTunnels: DisconnectTunnel, and the tunnel is set
\* inactive when that returned no error
StopDisconnect(t) ==
    /\ t \in am.stopping
    /\ IF IsConnected(t)
       THEN /\ DisconnectTunnel(t)
            /\ am' = [am EXCEPT !.stopping = @ \ {t},
                                !.config = SetTunnelActive(@, t, FALSE)]
       ELSE /\ am' = [am EXCEPT !.stopping = @ \ {t}]
            /\ UNCHANGED tunnelVars
    /\ bgFrame

\* the user logs in and marks tunnels before the agent is started
LoginBeforeStart(token) == am.bg.pc = "none" /\ LoginWithToken(token)

MarkBeforeStart(t, autoStart) == am.bg.pc = "none" /\ UserSetsAutoStart(t, autoStart)

AutoNext ==
    \/ \E token \in Tokens : LoginBeforeStart(token)
    \/ \E t \in Tunnels, b \in BOOLEAN : MarkBeforeStart(t, b)
    \/ StartSilently
    \/ AutoConnectStart
    \/ AutoConnectNext
    \/ \E k \in Calls : CallDial(k)
    \/ \E k \in Calls : CallDialOutage(k)
    \/ \E k \in Calls : CallWake(k)
    \/ AutoConnectReturns
    \/ BackgroundTick
    \/ MaintSync
    \/ MaintHealth
    \/ MaintStatus
    \/ BackgroundExit
    \/ StopSilently
    \/ \E t \in Tunnels : StopDisconnect(t)

\* a goroutine that can run does run: the dial returns, the sleep ends, the
\* loops go on and a ready case of the select is taken
AutoFairSpec ==
    /\ Init
    /\ [][AutoNext]_vars
    /\ WF_vars(AutoConnectStart)
    /\ WF_vars(AutoConnectNext)
    /\ WF_vars(AutoConnectReturns)
    /\ WF_vars(MaintSync) /\ WF_vars(MaintHealth) /\ WF_vars(MaintStatus)
    /\ WF_vars(BackgroundExit)
    /\ \A t \in Tunnels : WF_vars(StopDisconnect(t))
    /\ \A k \in Calls :
         /\ WF_vars(CallDial(k) \/ CallDialOutage(k))
         /\ WF_vars(CallWake(k))

\* C39: autoConnectTunnels gets to every auto-start tunnel it found, also
\* when the dial of one of them keeps failing; the background goroutine then
\* reaches its main loop, and once the context is cancelled it returns.
C39_AutoConnectGoesOn ==
    /\ \A t \in Tunnels : (t \in am.bg.todo) ~> (t \notin am.bg.todo)
    /\ (am.bg.pc = "auth") ~> (am.bg.pc \in {"loop", "exit"})
    /\ (am.cancelled /\ am.bg.pc # "none") ~> (am.bg.pc = "exit")

\* ---- am.mutex, hm.mu and tm.mutex ------------------------------------------------
lkFrame == UNCHANGED <<tunnelVars, sweep, reconnectQueue, lastProbe, hmq, disc, codec,
                       wr, nm, timed, am>>

LockOp(op, l) == [op |-> op, lock |-> l]

\* Lock(); ...; Unlock()
Critical(l) == <<LockOp("Lock", l), LockOp("Unlock", l)>>

\* RLock(); ...; RUnlock()
ReadSection(l) == <<LockOp("RLock", l), LockOp("RUnlock", l)>>

RECURSIVE Repeat(_, _)
Repeat(ops, n) == IF n = 0 THEN <<>> ELSE ops \o Repeat(ops, n - 1)

\* StartSilently and the deferred function of runBackgroundTasks
StartSilentlyLocks == Critical("am.mutex")

BackgroundExitLocks == Critical("am.mutex")

\* StopSilently: am.mutex is held to the end; disconnectAllTunnels calls
\* GetActiveTunnels and DisconnectTunnel for each of the n tunnels
StopSilentlyLocks(n) ==
    <<LockOp("Lock", "am.mutex")>> \o ReadSection("tm.mutex")
        \o Repeat(Critical("tm.mutex"), n) \o <<LockOp("Unlock", "am.mutex")>>

\* performHealthCheck: hm.mu is held to the end; GetActiveTunnels, then
\* IsTunnelConnected for each of the n tunnels
HealthCheckLocks(n) ==
    <<LockOp("Lock", "hm.mu")>> \o ReadSection("tm.mutex")
        \o Repeat(ReadSection("tm.mutex"), n) \o <<LockOp("Unlock", "hm.mu")>>

\* processReconnectQueue: hm.mu is held to the end; for each of the n queued
\* tunnels Manager.ConnectTunnel calls IsConnected and ConnectTunnelWithRetry,
\* which calls ConnectTunnel up to n times here
ReconnectQueueLocks(n) ==
    <<LockOp("Lock", "hm.mu")>>
        \o Repeat(ReadSection("tm.mutex") \o Repeat(Critical("tm.mutex"), n), n)
        \o <<LockOp("Unlock", "hm.mu")>>

\* TunnelManager.ConnectTunnel, the dial included
ConnectLocks == Critical("tm.mutex")

\* a DisconnectTunnel that took am.mutex before it returned
DisconnectLocksThenManager ==
    <<LockOp("Lock", "tm.mutex")>> \o Critical("am.mutex")
        \o <<LockOp("Unlock", "tm.mutex")>>

\* TunnelManager.DisconnectTunnel
DisconnectLocks == Critical("tm.mutex")

\* the cleanup of handleTunnelConnection
CleanupLocks == Critical("tm.mutex")

\* the operations with a loop
Looping == {"StopSilently", "performHealthCheck", "processReconnectQueue"}

LockProgram(p, n) ==
    CASE p = "StartSilently" -> StartSilentlyLocks
      [] p = "StopSilently" -> StopSilentlyLocks(n)
      [] p = "runBackgroundTasks" -> BackgroundExitLocks
      [] p = "performHealthCheck" -> HealthCheckLocks(n)
      [] p = "processReconnectQueue" -> ReconnectQueueLocks(n)
      [] p = "ConnectTunnel" -> ConnectLocks
      [] p = "DisconnectTunnel" -> DisconnectLocks
      [] p = "handleTunnelConnection" -> CleanupLocks

\* the lock operation p is at, after pc of them
NextLockOp(p) == LockProgram(p, lk.n[p])[lk.pc[p] + 1]

\* sync.RWMutex: Lock waits for the writer and the readers, RLock for the writer
CanDo(o) ==
    CASE o.op = "Lock" -> lk.owner[o.lock] = "none" /\ lk.readers[o.lock] = {}
      [] o.op = "RLock" -> lk.owner[o.lock] = "none"
      [] OTHER -> TRUE

Blocked(p) == lk.pc[p] > 0 /\ ~CanDo(NextLockOp(p))

\* the locks after the lock operation o of p
AfterLockOp(l, p, o) ==
    [l EXCEPT !.owner[o.lock] = IF o.op = "Lock" THEN p
                                ELSE IF o.op = "Unlock" THEN "none" ELSE @,
              !.readers[o.lock] = IF o.op = "RLock" THEN @ \cup {p}
                                  ELSE IF o.op = "RUnlock" THEN @ \ {p} ELSE @]

\* the operation is called and takes its first lock, which is free; n: the
\* rounds its loop will make
LockBegin(p, n) ==
    /\ lk.pc[p] = 0
    /\ p \notin lk.done
    /\ p \notin Looping => n = 0
    /\ LET o == LockProgram(p, n)[1]
       IN  /\ CanDo(o)
           /\ lk' = [AfterLockOp(lk, p, o) EXCEPT !.pc[p] = 1, !.n[p] = n]
    /\ lkFrame

\* the next lock operation of p; after the last one the operation has returned
LockStep(p) ==
    /\ lk.pc[p] > 0
    /\ LET o == NextLockOp(p)
           last == lk.pc[p] + 1 = Len(LockProgram(p, lk.n[p]))
       IN  /\ CanDo(o)
           /\ lk' = [AfterLockOp(lk, p, o) EXCEPT
                       !.pc[p] = IF last THEN 0 ELSE @ + 1,
                       !.n[p] = IF last THEN 0 ELSE @,
                       !.done = IF last THEN @ \cup {p} ELSE @]
    /\ lkFrame

LockNext ==
    \/ \E p \in LockProcs, n \in 0..MaxRounds : LockBegin(p, n)
    \/ \E p \in LockProcs : LockStep(p)

\* while some goroutine can take its next lock operation, one of them does
LockSpec == Init /\ [][LockNext]_vars /\ WF_vars(\E p \in LockProcs : LockStep(p))

\* C36: the operations that take am.mutex, hm.mu and tm.mutex never all wait
\* for each other: whenever an operation is under way, one of them can take
\* its next step; and every lock that is held, for writing or (tm.mutex, the
\* one lock taken so) for reading, is released again.
C36_NoDeadlockOnLocks ==
    /\ []((\E p \in LockProcs : lk.pc[p] > 0) =>
            (\E p \in LockProcs : lk.pc[p] > 0 /\ ~Blocked(p)))
    /\ \A l \in Locks : (lk.owner[l] # "none") ~> (lk.owner[l] = "none")
    /\ (lk.readers["tm.mutex"] # {}) ~> (lk.readers["tm.mutex"] = {})

\* the three locks are held at once: StopSilently holds am.mutex and
\* processReconnectQueue holds hm.mu, and both wait for tm.mutex, which the
\* cleanup of a handler holds
C36_Witness ==
    /\ lk.owner["am.mutex"] = "StopSilently"
    /\ lk.owner["hm.mu"] = "processReconnectQueue"
    /\ lk.owner["tm.mutex"] = "handleTunnelConnection"
    /\ Blocked("StopSilently")
    /\ Blocked("processReconnectQueue")

====
